---- MODULE Spec2Model ----
(***************************************************************************)
(* A model of wordle_warlord:                                              *)
(*   - the feedback predicate `matches` and its inverse                    *)
(*     `generate_feedback` (src/src/solver.rs), together with the older    *)
(*     string-pattern predicate of src/src/main.rs;                        *)
(*   - SolverState: new, add_guess, pop_guess, filter;                     *)
(*   - parse_pattern, score_and_sort and the analysis functions;           *)
(*   - the App of the terminal UI, its key handlers and its LogBuffer.     *)
(* Words are sequences of one-character strings, feedback sequences are    *)
(* sequences over {"Green", "Yellow", "Gray"}.                             *)
(*                                                                         *)
(* Specifications:                                                         *)
(*   SpecFn        the pure functions applied to inputs drawn by Init;     *)
(*   Spec          one SolverState driven by a caller that adds and pops   *)
(*                 guesses and filters a dictionary;                       *)
(*   SpecParse, SpecScore, SpecAnalysis, SpecPosition                      *)
(*                 one library function called on arguments drawn by Init; *)
(*   SpecHandlers  one UI handler called on an App drawn by Init;          *)
(*   SpecApp       one App driven by key events;                           *)
(*   SpecLog       threads sharing one LogBuffer.                          *)
(***************************************************************************)
EXTENDS Integers, Sequences, FiniteSets, TLC

VARIABLES
    word_len,      \* SolverState.word_len
    guesses,       \* SolverState.guesses: sequence of [word, feedback]
    words,         \* the caller's dictionary, fixed for a behaviour
    pool,          \* the caller's candidate pool: the result of filter(words),
                   \* dropped when the history changes (recomputed on demand)
    op,            \* the last operation the caller ran on the SolverState
    arg,           \* the Guess handed to the last add_guess call
    in_word,       \* SpecFn: the candidate / target word
    in_guess,      \* SpecFn: the guessed word
    in_pattern,    \* SpecFn: the feedback sequence given to matches
    out_feedback,  \* SpecFn: the value generate_feedback returned
    out_matches,   \* SpecFn: the value matches returned
    out_main,      \* SpecFn: the value the matches of main.rs returned
    pc,            \* SpecFn: which function has been applied
    call,          \* SpecParse, SpecScore, SpecAnalysis: the function called
                   \* and its arguments
    ret,           \* the value that call returned; ret.done is FALSE before
                   \* it returns
    app,           \* SpecApp: the fields of struct App that the key handlers
                   \* read and write
    inner,         \* SpecLog: LogBuffer.inner, the Vec behind the Mutex
    holder,        \* SpecLog: the thread that holds the Mutex, 0 for none
    thread,        \* SpecLog: per thread, where it is in push or lines,
                   \* the line it pushes and the calls it has made
    pushed,        \* SpecLog: every line handed to Vec::push so far, in
                   \* the order of the pushes
    seen           \* SpecLog: the Vec the last lines() returned, and how
                   \* many lines had been pushed when it was cloned

solverVars == <<word_len, guesses, words, pool, op, arg>>
fnVars == <<in_word, in_guess, in_pattern, out_feedback, out_matches, out_main,
           pc>>
callVars == <<call, ret>>
logVars == <<inner, holder, thread, pushed, seen>>
appVars == <<app, logVars>>
vars == <<word_len, guesses, words, pool, op, arg,
          in_word, in_guess, in_pattern, out_feedback, out_matches, out_main,
          pc, call, ret, app, inner, holder, thread, pushed, seen>>

(***************************************************************************)
(* Bounds.                                                                 *)
(***************************************************************************)
\* longest word SpecFn enumerates exhaustively
MaxLen == 3
\* longest guess history Spec builds
MaxGuesses == 2

\* letters of the exhaustively enumerated words
Alphabet == {"a", "b", "c"}
\* letters and word lengths of the sessions Spec enumerates exhaustively
EngineAlphabet == {"a", "b"}
SessionLens == {1, 2}

(***************************************************************************)
(* enum Feedback                                                           *)
(***************************************************************************)
Green == "Green"
Yellow == "Yellow"
Gray == "Gray"
Feedback == {Green, Yellow, Gray}

\* try_from without to_ascii_uppercase: lower-case letters are rejected
try_fromCaseSensitive(value) ==
    CASE value = "G" -> Green
      [] value = "Y" -> Yellow
      [] value = "X" -> Gray
      [] OTHER -> "Err"

\* impl TryFrom<char> for Feedback, on the characters the model uses;
\* "Err" stands for Err(value)
try_from(value) ==
    CASE value \in {"G", "g"} -> Green
      [] value \in {"Y", "y"} -> Yellow
      [] value \in {"X", "x"} -> Gray
      [] OTHER -> "Err"

\* fn parse_pattern(pattern) -> Result<Vec<Feedback>>: the characters are
\* mapped in order and collect() stops at the first Err, whose character
\* the error message names; acc is the Vec collected so far
RECURSIVE ParseFrom(_, _, _)
ParseFrom(pattern, i, acc) ==
    IF i > Len(pattern) THEN [ok |-> TRUE, value |-> acc]
    ELSE IF try_from(pattern[i]) = "Err"
         THEN [ok |-> FALSE, bad |-> pattern[i]]
         ELSE ParseFrom(pattern, i + 1, Append(acc, try_from(pattern[i])))

parse_pattern(pattern) == ParseFrom(pattern, 1, <<>>)

WordsOver(alphabet, n) == [1..n -> alphabet]
Patterns(n) == [1..n -> Feedback]

\* number of positions of sequence s that hold x
Occurrences(s, x) == Cardinality({i \in DOMAIN s : s[i] = x})
\* number of positions of guess g that hold letter x and are marked Green
\* or Yellow in pattern p
Marks(g, p, x) == Cardinality({i \in DOMAIN g : g[i] = x /\ p[i] # Gray})

(***************************************************************************)
(* The words of the repository's unit tests.                               *)
(***************************************************************************)
dusky == <<"d", "u", "s", "k", "y">>
dusty == <<"d", "u", "s", "t", "y">>
dumpy == <<"d", "u", "m", "p", "y">>
daisy == <<"d", "a", "i", "s", "y">>
allot == <<"a", "l", "l", "o", "t">>
label == <<"l", "a", "b", "e", "l">>
cello == <<"c", "e", "l", "l", "o">>
helot == <<"h", "e", "l", "o", "t">>
pilot == <<"p", "i", "l", "o", "t">>
sassy == <<"s", "a", "s", "s", "y">>
gassy == <<"g", "a", "s", "s", "y">>
class == <<"c", "l", "a", "s", "s">>
apple == <<"a", "p", "p", "l", "e">>
allay == <<"a", "l", "l", "a", "y">>
crate == <<"c", "r", "a", "t", "e">>
trace == <<"t", "r", "a", "c", "e">>
react == <<"r", "e", "a", "c", "t">>

TestWords == {dusky, dusty, dumpy, daisy, allot, label, cello, helot, pilot,
              sassy, gassy, class, apple, allay, crate, trace, react}

\* the feedback sequences the unit tests hand to matches / filter_words
pat_GXXYG == <<Green, Gray, Gray, Yellow, Green>>
pat_GGXGG == <<Green, Green, Gray, Green, Green>>
pat_XYXXX == <<Gray, Yellow, Gray, Gray, Gray>>
pat_GXXXG == <<Green, Gray, Gray, Gray, Green>>
pat_GGGGG == <<Green, Green, Green, Green, Green>>
pat_GYXXX == <<Green, Yellow, Gray, Gray, Gray>>

TestPatterns == {pat_GXXYG, pat_GGXGG, pat_XYXXX, pat_GXXXG, pat_GGGGG,
                 pat_GYXXX}

(***************************************************************************)
(* fn matches(word, guess, pattern) -> bool        src/src/solver.rs       *)
(***************************************************************************)
\* "Count letters in candidate": the HashMap keyed by the letters of w
CountLetters(w) ==
    [c \in {w[i] : i \in DOMAIN w} |-> Occurrences(w, c)]

\* "First pass: enforce greens and reduce counts", from position i on.
\* ok = FALSE is the early `return false`.
RECURSIVE GreenPass(_, _, _, _, _)
GreenPass(w, g, pattern, i, counts) ==
    IF i > Len(w) THEN [ok |-> TRUE, counts |-> counts]
    ELSE IF pattern[i] = Green
         THEN IF w[i] # g[i]
              THEN [ok |-> FALSE, counts |-> counts]
              ELSE GreenPass(w, g, pattern, i + 1,
                             [counts EXCEPT ![g[i]] = @ - 1])
         ELSE GreenPass(w, g, pattern, i + 1, counts)

\* "Second pass: yellows", from position i on
RECURSIVE YellowPass(_, _, _, _, _)
YellowPass(w, g, pattern, i, counts) ==
    IF i > Len(w) THEN [ok |-> TRUE, counts |-> counts]
    ELSE IF pattern[i] = Yellow
         THEN IF w[i] = g[i]
              THEN [ok |-> FALSE, counts |-> counts]
              ELSE IF g[i] \in DOMAIN counts /\ counts[g[i]] > 0
                   THEN YellowPass(w, g, pattern, i + 1,
                                   [counts EXCEPT ![g[i]] = @ - 1])
                   ELSE [ok |-> FALSE, counts |-> counts]
         ELSE YellowPass(w, g, pattern, i + 1, counts)

\* GrayRejects as a predicate that takes a gray letter to be absent from
\* the whole word: it ignores how many occurrences the greens and yellows
\* of the same guess have used up
GrayRejectsAnyOccurrence(g, pattern, i, counts) ==
    /\ pattern[i] = Gray
    /\ g[i] \in DOMAIN counts

\* the test of the third pass at position i: TRUE is `return false`
GrayRejects(g, pattern, i, counts) ==
    /\ pattern[i] = Gray
    /\ g[i] \in DOMAIN counts
    /\ counts[g[i]] > 0

\* "Third pass: grays must have no remaining matches"
GrayPass(w, g, pattern, counts) ==
    \A i \in 1..Len(w) : ~GrayRejects(g, pattern, i, counts)

\* matches with a second pass that only asks for the yellow letter to occur
\* somewhere in the word, without using up an occurrence
matchesYellowContains(word, guess, pattern) ==
    IF Len(word) # Len(guess) \/ Len(guess) # Len(pattern) THEN FALSE
    ELSE /\ \A i \in DOMAIN guess :
                pattern[i] = Green => word[i] = guess[i]
         /\ \A i \in DOMAIN guess :
                pattern[i] = Yellow =>
                    /\ word[i] # guess[i]
                    /\ \E j \in DOMAIN word : word[j] = guess[i]
         /\ \A i \in DOMAIN guess :
                pattern[i] = Gray =>
                    Occurrences(word, guess[i]) <= Marks(guess, pattern, guess[i])

matches(word, guess, pattern) ==
    IF Len(word) # Len(guess) \/ Len(guess) # Len(pattern) THEN FALSE
    ELSE LET p1 == GreenPass(word, guess, pattern, 1, CountLetters(word))
         IN  IF ~p1.ok THEN FALSE
             ELSE LET p2 == YellowPass(word, guess, pattern, 1, p1.counts)
                  IN  IF ~p2.ok THEN FALSE
                      ELSE GrayPass(word, guess, pattern, p2.counts)

(***************************************************************************)
(* fn generate_feedback(target, guess) -> Vec<Feedback>  src/src/solver.rs *)
(* Defined for Len(target) >= Len(guess); a shorter target makes t[i]      *)
(* panic, and the model applies the function to equal lengths only.        *)
(***************************************************************************)
\* "greens", from position i on
RECURSIVE FeedbackGreens(_, _, _, _, _)
FeedbackGreens(t, g, i, result, counts) ==
    IF i > Len(g) THEN [result |-> result, counts |-> counts]
    ELSE IF g[i] = t[i]
         THEN FeedbackGreens(t, g, i + 1,
                             [result EXCEPT ![i] = Green],
                             [counts EXCEPT ![g[i]] = @ - 1])
         ELSE FeedbackGreens(t, g, i + 1, result, counts)

\* "yellows", from position i on
RECURSIVE FeedbackYellows(_, _, _, _)
FeedbackYellows(g, i, result, counts) ==
    IF i > Len(g) THEN result
    ELSE IF result[i] = Green
         THEN FeedbackYellows(g, i + 1, result, counts)
         ELSE IF g[i] \in DOMAIN counts /\ counts[g[i]] > 0
              THEN FeedbackYellows(g, i + 1,
                                   [result EXCEPT ![i] = Yellow],
                                   [counts EXCEPT ![g[i]] = @ - 1])
              ELSE FeedbackYellows(g, i + 1, result, counts)

\* generate_feedback in a single left-to-right pass: a yellow may use up
\* the occurrence that a later green needs
RECURSIVE FeedbackOnePass(_, _, _, _, _)
FeedbackOnePass(t, g, i, result, counts) ==
    IF i > Len(g) THEN result
    ELSE IF g[i] = t[i]
         THEN FeedbackOnePass(t, g, i + 1, [result EXCEPT ![i] = Green],
                              [counts EXCEPT ![g[i]] = @ - 1])
         ELSE IF g[i] \in DOMAIN counts /\ counts[g[i]] > 0
              THEN FeedbackOnePass(t, g, i + 1,
                                   [result EXCEPT ![i] = Yellow],
                                   [counts EXCEPT ![g[i]] = @ - 1])
              ELSE FeedbackOnePass(t, g, i + 1, result, counts)

generate_feedbackOnePass(target, guess) ==
    FeedbackOnePass(target, guess, 1, [i \in 1..Len(guess) |-> Gray],
                    CountLetters(target))

\* generate_feedback that marks a letter Yellow whenever the target holds
\* it, without counting occurrences
generate_feedbackNoCount(target, guess) ==
    [i \in 1..Len(guess) |->
        IF guess[i] = target[i] THEN Green
        ELSE IF \E j \in DOMAIN target : target[j] = guess[i] THEN Yellow
        ELSE Gray]

generate_feedback(target, guess) ==
    LET greens == FeedbackGreens(target, guess, 1,
                                 [i \in 1..Len(guess) |-> Gray],
                                 CountLetters(target))
    IN  FeedbackYellows(guess, 1, greens.result, greens.counts)

(***************************************************************************)
(* fn matches(word, guess, pattern: &str) -> bool      src/src/main.rs     *)
(* The command-line predicate: pattern is a sequence of the characters     *)
(* "G", "Y", "X". Applied to equal lengths only (main checks them).        *)
(***************************************************************************)
\* "G + Y pass", from position i on; ok = FALSE is the early `return false`
RECURSIVE MainGreenYellowPass(_, _, _, _, _)
MainGreenYellowPass(w, g, p, i, min_counts) ==
    IF i > Len(w) THEN [ok |-> TRUE, min_counts |-> min_counts]
    ELSE CASE p[i] = "G" ->
                IF w[i] # g[i]
                THEN [ok |-> FALSE, min_counts |-> min_counts]
                ELSE MainGreenYellowPass(w, g, p, i + 1,
                         [min_counts EXCEPT ![g[i]] = @ + 1])
           [] p[i] = "Y" ->
                IF w[i] = g[i] \/ ~(\E j \in DOMAIN w : w[j] = g[i])
                THEN [ok |-> FALSE, min_counts |-> min_counts]
                ELSE MainGreenYellowPass(w, g, p, i + 1,
                         [min_counts EXCEPT ![g[i]] = @ + 1])
           [] p[i] = "X" -> MainGreenYellowPass(w, g, p, i + 1, min_counts)
           [] OTHER -> [ok |-> FALSE, min_counts |-> min_counts]

\* "X pass (proper Wordle logic)"
MainGrayPass(w, g, p, min_counts) ==
    \A i \in 1..Len(w) :
        p[i] = "X" => ~(Occurrences(w, g[i]) > min_counts[g[i]])

\* min_counts starts empty: an absent key reads as 0 (unwrap_or(&0))
main_matches(word, guess, pattern) ==
    LET p1 == MainGreenYellowPass(word, guess, pattern, 1,
                  [c \in {guess[i] : i \in DOMAIN guess} |-> 0])
    IN  IF ~p1.ok THEN FALSE
        ELSE MainGrayPass(word, guess, pattern, p1.min_counts)

\* the pattern string main.rs reads for a feedback sequence
PatternChars(pattern) ==
    [i \in DOMAIN pattern |->
        CHOOSE ch \in {"G", "Y", "X"} : try_from(ch) = pattern[i]]

(***************************************************************************)
(* SpecFn: the pure functions applied to equal-length inputs.              *)
(***************************************************************************)
\* the state of the SolverState variables while SpecFn runs
SolverIdle ==
    /\ word_len = 0
    /\ guesses = <<>>
    /\ words = <<>>
    /\ pool = <<>>
    /\ op = "none"
    /\ arg = <<>>

\* the state of call and ret while no library function is called
CallIdle ==
    /\ call = [fn |-> "none"]
    /\ ret = [done |-> FALSE]

\* the state of the LogBuffer variables while no thread logs
LogIdle ==
    /\ inner = <<>>
    /\ holder = 0
    /\ thread = <<>>
    /\ pushed = <<>>
    /\ seen = [lines |-> <<>>, at |-> 0]

\* the state of app while no App has been constructed
AppIdle ==
    /\ app = [mode |-> "none"]
    /\ LogIdle

FnInputs ==
    { <<w, g>> : w \in TestWords, g \in TestWords }
    \cup UNION { WordsOver(Alphabet, n) \X WordsOver(Alphabet, n) :
                 n \in 1..MaxLen }

InitFn ==
    /\ SolverIdle
    /\ CallIdle
    /\ AppIdle
    /\ \E in \in FnInputs : in_word = in[1] /\ in_guess = in[2]
    /\ in_pattern = <<>>
    /\ out_feedback = <<>>
    /\ out_matches = FALSE
    /\ out_main = FALSE
    /\ pc = "input"

\* let fb = generate_feedback(target, guess)
FnGenerateFeedback ==
    /\ pc = "input"
    /\ out_feedback' = generate_feedback(in_word, in_guess)
    /\ pc' = "fed"
    /\ UNCHANGED <<in_word, in_guess, in_pattern, out_matches, out_main>>
    /\ UNCHANGED <<solverVars, callVars, appVars>>

\* matches(target, guess, &fb) on the feedback just generated
FnRoundTrip ==
    /\ pc = "fed"
    /\ in_pattern' = out_feedback
    /\ out_matches' = matches(in_word, in_guess, out_feedback)
    /\ out_main' = main_matches(in_word, in_guess, PatternChars(out_feedback))
    /\ pc' = "roundtrip"
    /\ UNCHANGED <<in_word, in_guess, out_feedback>>
    /\ UNCHANGED <<solverVars, callVars, appVars>>

\* matches(word, guess, pattern) on a pattern of the caller's choice
FnMatches ==
    /\ pc = "input"
    /\ \E p \in (IF in_word \in TestWords THEN TestPatterns
                 ELSE Patterns(Len(in_guess))) :
          /\ in_pattern' = p
          /\ out_matches' = matches(in_word, in_guess, p)
          /\ out_main' = main_matches(in_word, in_guess, PatternChars(p))
    /\ pc' = "matched"
    /\ UNCHANGED <<in_word, in_guess, out_feedback>>
    /\ UNCHANGED <<solverVars, callVars, appVars>>

NextFn ==
    \/ FnGenerateFeedback
    \/ FnRoundTrip
    \/ FnMatches

SpecFn == InitFn /\ [][NextFn]_vars

(***************************************************************************)
(* struct SolverState { word_len, guesses }            src/src/solver.rs   *)
(* A SolverState value is a record [word_len, guesses]; a Guess is a       *)
(* record [word, feedback].                                                *)
(***************************************************************************)
Guess_new(word, feedback) == [word |-> word, feedback |-> feedback]

new(wl) == [word_len |-> wl, guesses |-> <<>>]

\* pop_guess dropping the whole history (truncate(0))
pop_guessAll(self) ==
    [self EXCEPT !.guesses = <<>>]

\* pop_guess removing the oldest guess (remove(0)) instead of the newest
pop_guessOldest(self) ==
    [self EXCEPT !.guesses = IF Len(@) = 0 THEN @ ELSE Tail(@)]

pop_guess(self) ==
    [self EXCEPT !.guesses =
        IF Len(@) = 0 THEN @ ELSE SubSeq(@, 1, Len(@) - 1)]

\* add_guess_panics without the assertion on the feedback length
add_guess_panicsWordOnly(self, guess) ==
    Len(guess.word) # self.word_len

\* the two assert_eq! of add_guess: TRUE when one of them panics
add_guess_panics(self, guess) ==
    \/ Len(guess.word) # self.word_len
    \/ Len(guess.feedback) # self.word_len

\* add_guess that keeps only the new guess
add_guessReplacing(self, guess) ==
    [self EXCEPT !.guesses = <<guess>>]

\* add_guess past its assertions
add_guess(self, guess) ==
    [self EXCEPT !.guesses = Append(@, guess)]

\* filter keeping a word as soon as one stored guess accepts it
filterAny(self, ws) ==
    SelectSeq(ws, LAMBDA w :
        /\ Len(w) = self.word_len
        /\ \E k \in DOMAIN self.guesses :
              matches(w, self.guesses[k].word, self.guesses[k].feedback))

\* filter testing the newest guess only
filterNewestOnly(self, ws) ==
    SelectSeq(ws, LAMBDA w :
        /\ Len(w) = self.word_len
        /\ \/ Len(self.guesses) = 0
           \/ matches(w, self.guesses[Len(self.guesses)].word,
                      self.guesses[Len(self.guesses)].feedback))

filter(self, ws) ==
    SelectSeq(ws, LAMBDA w :
        /\ Len(w) = self.word_len
        /\ \A k \in DOMAIN self.guesses :
              matches(w, self.guesses[k].word, self.guesses[k].feedback))

(***************************************************************************)
(* Spec: a caller owning one SolverState and one dictionary.               *)
(***************************************************************************)
\* the SolverState the variables hold
Self == [word_len |-> word_len, guesses |-> guesses]

\* a dictionary over EngineAlphabet: unsorted, with a duplicate entry and
\* entries of several lengths
DictAB ==
    << <<"a", "b">>, <<"a">>, <<"b", "a">>, <<"a", "b">>, <<"b">>,
       <<"a", "a">>, <<"b", "b">>, <<"a", "a", "b">> >>

\* the dictionary of test_solver_state_multiple_guesses_compound
DictTest == <<dusky, dusty, dumpy, daisy>>

Sessions ==
    { <<n, DictAB>> : n \in SessionLens } \cup { <<5, DictTest>> }

\* the feedback of guess "dusky" against target "dusty"
pat_GGGXG == <<Green, Green, Green, Gray, Green>>

\* the guesses of test_solver_state_multiple_guesses_compound, and a third
\* one that tells dusky from dusty
TestGuesses ==
    { Guess_new(daisy, pat_GXXYG), Guess_new(dusty, pat_GGXGG),
      Guess_new(dusky, pat_GGGXG) }

\* guesses whose word and feedback lengths vary independently
MixedLengthGuesses ==
    { Guess_new([i \in 1..n |-> "a"], [i \in 1..m |-> Gray]) :
        n \in 1..3, m \in 1..3 }

\* what the caller may hand to add_guess in a session of length n: the
\* guesses of the unit test, the guesses of mixed lengths and, in a session
\* over EngineAlphabet, every well-formed guess
GuessInputs(n) ==
    TestGuesses \cup MixedLengthGuesses
    \cup IF n \in SessionLens
         THEN { Guess_new(w, f) : w \in WordsOver(EngineAlphabet, n),
                                  f \in Patterns(n) }
         ELSE {}

FnIdle ==
    /\ in_word = <<>>
    /\ in_guess = <<>>
    /\ in_pattern = <<>>
    /\ out_feedback = <<>>
    /\ out_matches = FALSE
    /\ out_main = FALSE
    /\ pc = "none"

\* SolverState::new(word_len), and the dictionary the caller loaded
Init ==
    /\ FnIdle
    /\ CallIdle
    /\ AppIdle
    /\ \E s \in Sessions :
          /\ word_len = new(s[1]).word_len
          /\ guesses = new(s[1]).guesses
          /\ words = s[2]
    /\ pool = <<>>
    /\ op = "new"
    /\ arg = <<>>

\* state.add_guess(g): the assertions pass and g is pushed
AddGuess ==
    /\ op # "panic"
    /\ Len(guesses) < MaxGuesses
    /\ \E g \in GuessInputs(word_len) :
          /\ ~add_guess_panics(Self, g)
          /\ guesses' = add_guess(Self, g).guesses
          /\ arg' = g
    /\ op' = "add_guess"
    /\ pool' = <<>>
    /\ UNCHANGED <<word_len, words>>
    /\ UNCHANGED <<fnVars, callVars, appVars>>

\* state.add_guess(g): an assertion fails and the thread panics
AddGuessPanic ==
    /\ op # "panic"
    /\ Len(guesses) < MaxGuesses
    /\ \E g \in GuessInputs(word_len) :
          /\ add_guess_panics(Self, g)
          /\ arg' = g
    /\ op' = "panic"
    /\ pool' = <<>>
    /\ UNCHANGED <<word_len, guesses, words>>
    /\ UNCHANGED <<fnVars, callVars, appVars>>

\* state.pop_guess()
PopGuess ==
    /\ op # "panic"
    /\ guesses' = pop_guess(Self).guesses
    /\ op' = "pop_guess"
    /\ arg' = <<>>
    /\ pool' = <<>>
    /\ UNCHANGED <<word_len, words>>
    /\ UNCHANGED <<fnVars, callVars, appVars>>

\* a filter that consumes the history it tested (guesses.drain(..))
FilterDraining ==
    /\ op # "panic"
    /\ pool' = filter(Self, words)
    /\ guesses' = <<>>
    /\ op' = "filter"
    /\ arg' = <<>>
    /\ UNCHANGED <<word_len, words>>
    /\ UNCHANGED <<fnVars, callVars, appVars>>

\* let remaining = state.filter(&words)
Filter ==
    /\ op # "panic"
    /\ pool' = filter(Self, words)
    /\ op' = "filter"
    /\ arg' = <<>>
    /\ UNCHANGED <<word_len, guesses, words>>
    /\ UNCHANGED <<fnVars, callVars, appVars>>

Next ==
    \/ AddGuess
    \/ AddGuessPanic
    \/ PopGuess
    \/ Filter

Spec == Init /\ [][Next]_vars

(***************************************************************************)
(* Properties of the pure functions (SpecFn).                              *)
(***************************************************************************)
\* some letter of the guess occurs twice in it
RepeatsLetter(g) == \E i, j \in DOMAIN g : i # j /\ g[i] = g[j]

\* C1: round trip: for equal-length words T and G the feedback generated
\* for G against T is accepted by matches for the candidate T, repeated
\* letters included.
RoundTrip ==
    pc = "roundtrip" => out_matches = TRUE

\* a round trip whose guess repeats a letter that is marked Gray at one
\* occurrence and Green or Yellow at another
RoundTripWitness ==
    /\ pc = "roundtrip"
    /\ out_matches
    /\ RepeatsLetter(in_word)
    /\ \E i, j \in DOMAIN in_guess :
          /\ in_guess[i] = in_guess[j]
          /\ out_feedback[i] = Gray
          /\ out_feedback[j] = Yellow

\* the three checks as C2 words them
CheckExact(c, g, f) ==
    \A i \in DOMAIN g : f[i] = Green => c[i] = g[i]
CheckDisplacedContains(c, g, f) ==
    \A i \in DOMAIN g :
        f[i] = Yellow => c[i] # g[i] /\ (\E j \in DOMAIN c : c[j] = g[i])
CheckAbsent(c, g, f) ==
    \A i \in DOMAIN g :
        f[i] = Gray => Occurrences(c, g[i]) <= Marks(g, f, g[i])
\* the Displaced check the predicate of solver.rs makes: every yellow
\* letter needs an occurrence of its own
CheckDisplacedCounted(c, g, f) ==
    \A i \in DOMAIN g :
        f[i] = Yellow =>
            c[i] # g[i] /\ Occurrences(c, g[i]) >= Marks(g, f, g[i])

\* C2 as claimed: matches is true exactly when the Exact check, the
\* Displaced check "differs here and occurs somewhere" and the Absent check
\* all hold.
MatchesIsThreeChecks ==
    pc = "matched" =>
        (out_matches <=> /\ CheckExact(in_word, in_guess, in_pattern)
                         /\ CheckDisplacedContains(in_word, in_guess, in_pattern)
                         /\ CheckAbsent(in_word, in_guess, in_pattern))

\* C2 amended: matches of solver.rs is true exactly when (1) every Exact
\* position agrees, (2) at every Displaced position the candidate differs
\* and the candidate holds at least as many occurrences of that letter as
\* the guess has Exact+Displaced marks on it, (3) for every Absent position
\* the candidate holds no more occurrences of the letter than the guess has
\* Exact+Displaced marks on it. The three checks as claimed characterise the
\* matches of main.rs.
MatchesIsCountedChecks ==
    pc = "matched" =>
        /\ out_matches <=> /\ CheckExact(in_word, in_guess, in_pattern)
                           /\ CheckDisplacedCounted(in_word, in_guess, in_pattern)
                           /\ CheckAbsent(in_word, in_guess, in_pattern)
        /\ out_main <=> /\ CheckExact(in_word, in_guess, in_pattern)
                        /\ CheckDisplacedContains(in_word, in_guess, in_pattern)
                        /\ CheckAbsent(in_word, in_guess, in_pattern)

\* a candidate that the claimed checks accept and matches rejects: two
\* yellows on a letter the candidate holds once
MatchesCountedWitness ==
    /\ pc = "matched"
    /\ ~out_matches
    /\ out_main
    /\ CheckDisplacedContains(in_word, in_guess, in_pattern)
    /\ ~CheckDisplacedCounted(in_word, in_guess, in_pattern)

\* C3: repeated-letter rule: when the first two passes of matches succeed,
\* the candidate is rejected exactly when some Absent-marked letter occurs
\* in it more often than the guess has Exact+Displaced marks on that letter;
\* "allot" with Gray,Yellow,Gray,Gray,Gray rejects label, cello, helot and
\* pilot, and "sassy" with Green,Gray,Gray,Gray,Green rejects sassy, gassy
\* and class.
RepeatedLetterRule ==
    pc = "matched" =>
        LET p1 == GreenPass(in_word, in_guess, in_pattern, 1,
                            CountLetters(in_word))
            p2 == YellowPass(in_word, in_guess, in_pattern, 1, p1.counts)
        IN  /\ (p1.ok /\ p2.ok) =>
                   (~out_matches <=>
                       \E i \in DOMAIN in_guess :
                           /\ in_pattern[i] = Gray
                           /\ Occurrences(in_word, in_guess[i])
                                > Marks(in_guess, in_pattern, in_guess[i]))
            /\ ( /\ in_guess = allot
                 /\ in_pattern = pat_XYXXX
                 /\ in_word \in {label, cello, helot, pilot} ) => ~out_matches
            /\ ( /\ in_guess = sassy
                 /\ in_pattern = pat_GXXXG
                 /\ in_word \in {sassy, gassy, class} ) => ~out_matches

\* a candidate accepted although it holds a letter that the guess marks
\* Gray at one occurrence, the other occurrence being Green or Yellow
RepeatedLetterWitness ==
    /\ pc = "matched"
    /\ out_matches
    /\ \E i, j \in DOMAIN in_guess :
          /\ in_guess[i] = in_guess[j]
          /\ in_pattern[i] = Gray
          /\ in_pattern[j] # Gray
          /\ Occurrences(in_word, in_guess[i]) > 0

\* C9: generate_feedback returns one symbol per guess letter; position i is
\* Green exactly when guess[i] = target[i]; a non-Green position i holding
\* letter L is Yellow exactly when the Green positions of L plus the
\* non-Green positions of L to the left of i number fewer than the
\* occurrences of L in the target, and Gray otherwise; target "apple",
\* guess "allay" gives Green, Yellow, Gray, Gray, Gray.
FeedbackShape ==
    pc \in {"fed", "roundtrip"} =>
        /\ Len(out_feedback) = Len(in_guess)
        /\ \A i \in DOMAIN in_guess :
              LET L == in_guess[i]
                  exact == Cardinality({j \in DOMAIN in_guess :
                              in_guess[j] = L /\ in_word[j] = L})
                  before == Cardinality({j \in 1..(i - 1) :
                              in_guess[j] = L /\ in_word[j] # L})
              IN  /\ out_feedback[i] \in Feedback
                  /\ out_feedback[i] = Green <=> in_guess[i] = in_word[i]
                  /\ in_guess[i] # in_word[i] =>
                        (out_feedback[i] = Yellow
                            <=> exact + before < Occurrences(in_word, L))
        /\ (in_word = apple /\ in_guess = allay) => out_feedback = pat_GYXXX

\* feedback with a Yellow to the left of a Green of the same letter, and a
\* Gray on a letter the target holds
FeedbackShapeWitness ==
    /\ pc = "fed"
    /\ \E i, j \in DOMAIN in_guess :
          /\ i < j
          /\ in_guess[i] = in_guess[j]
          /\ out_feedback[i] = Gray
          /\ out_feedback[j] = Green

(***************************************************************************)
(* Properties of SolverState (Spec).                                       *)
(***************************************************************************)
\* word w satisfies every guess of the history gs
Consistent(w, gs) ==
    \A k \in DOMAIN gs : matches(w, gs[k].word, gs[k].feedback)

\* the j-th smallest element of the set of naturals S
Nth(S, j) == CHOOSE i \in S : Cardinality({x \in S : x <= i}) = j

\* the entries of ws at the positions idx, in position order
Subsequence(ws, idx) == [j \in 1..Cardinality(idx) |-> ws[Nth(idx, j)]]

\* C4: filter(D) returns exactly the entries of D of the session length
\* that satisfy matches against every stored guess, in dictionary order,
\* duplicates kept; all entries of the session length for an empty history;
\* an empty pool for contradictory guesses (daisy/GXXYG leaves dusky, dusty;
\* then dusty/GGXGG leaves nothing).
FilterExact ==
    op = "filter" =>
        /\ pool = Subsequence(words,
                    {i \in DOMAIN words :
                        Len(words[i]) = word_len /\ Consistent(words[i], guesses)})
        /\ guesses = <<>> =>
              pool = Subsequence(words,
                        {i \in DOMAIN words : Len(words[i]) = word_len})
        /\ (words = DictTest /\ guesses = <<Guess_new(daisy, pat_GXXYG)>>) =>
              pool = <<dusky, dusty>>
        /\ ( /\ words = DictTest
             /\ guesses = <<Guess_new(daisy, pat_GXXYG),
                            Guess_new(dusty, pat_GGXGG)>> ) => pool = <<>>

\* the contradictory history of the unit test, filtered to an empty pool
FilterExactWitness ==
    /\ op = "filter"
    /\ words = DictTest
    /\ guesses = <<Guess_new(daisy, pat_GXXYG), Guess_new(dusty, pat_GGXGG)>>
    /\ pool = <<>>

\* C5: monotonic narrowing: a step that adds a guess never increases the
\* number of entries filter returns for the dictionary.
MonotonicNarrowing ==
    [][op' = "add_guess" =>
          Len(filter(Self', words')) <= Len(filter(Self, words))]_vars

\* a second guess that removed entries from a pool that was not empty
MonotonicNarrowingWitness ==
    /\ op = "add_guess"
    /\ Len(guesses) = 2
    /\ Len(filter(Self, words)) > 0
    /\ Len(filter(Self, words)) < Len(filter(pop_guess(Self), words))

\* C6: undo inverse: pop_guess applied to the state add_guess produced gives
\* back the history from before the add, hence the same filter result; and
\* a pop_guess step taken right after an add_guess step removes exactly the
\* guess that was added.
UndoInverse ==
    [][ /\ op' = "add_guess" =>
              /\ pop_guess(Self') = Self
              /\ filter(pop_guess(Self'), words') = filter(Self, words)
        /\ (op = "add_guess" /\ op' = "pop_guess") =>
              /\ Append(guesses', arg) = guesses
              /\ word_len' = word_len ]_vars

\* a guess was added on top of another one and changed the filter result
UndoInverseWitness ==
    /\ op = "add_guess"
    /\ Len(guesses) = 2
    /\ guesses[1] # guesses[2]
    /\ filter(Self, words) # filter(pop_guess(Self), words)

\* the history gs reordered by the permutation pi of its positions
Reordered(gs, pi) == [i \in DOMAIN gs |-> gs[pi[i]]]

\* C7: order independence: an engine holding the same guesses in any other
\* order returns the same filter result.
OrderIndependence ==
    \A pi \in Permutations(DOMAIN guesses) :
        filter([Self EXCEPT !.guesses = Reordered(guesses, pi)], words)
            = filter(Self, words)

\* two guesses that filter differently on their own and together leave a
\* pool that is not empty
OrderIndependenceWitness ==
    /\ Len(guesses) = 2
    /\ filter([Self EXCEPT !.guesses = <<guesses[1]>>], words)
         # filter([Self EXCEPT !.guesses = <<guesses[2]>>], words)
    /\ Len(filter(Self, words)) > 0
    /\ Len(filter(Self, words))
         < Len(filter([Self EXCEPT !.guesses = <<guesses[2]>>], words))

\* C8: filter is read-only and repeatable: a filter step leaves word_len
\* and the history as they were, and the pool it returned is what filter
\* returns when called again on the state it left.
FilterReadOnly ==
    [][op' = "filter" =>
          /\ guesses' = guesses
          /\ word_len' = word_len
          /\ words' = words
          /\ pool' = filter(Self', words')]_vars

\* a filter call on a history of two guesses that changed the caller's pool
FilterReadOnlyWitness ==
    /\ op = "filter"
    /\ Len(guesses) = 2
    /\ pool # <<>>
    /\ Len(pool) < Len(filter(new(word_len), words))

\* every stored guess has the session's word length
LengthsAgree ==
    \A k \in DOMAIN guesses :
        /\ Len(guesses[k].word) = word_len
        /\ Len(guesses[k].feedback) = word_len

\* C10: every stored guess has word and feedback of length word_len, and
\* word_len never changes; add_guess appends its argument only when both
\* lengths equal word_len, and otherwise panics without appending.
LengthInvariant ==
    /\ []LengthsAgree
    /\ [][ /\ word_len' = word_len
           /\ op' = "add_guess" =>
                 /\ Len(arg'.word) = word_len
                 /\ Len(arg'.feedback) = word_len
                 /\ guesses' = Append(guesses, arg')
           /\ op' = "panic" =>
                 /\ Len(arg'.word) # word_len \/ Len(arg'.feedback) # word_len
                 /\ guesses' = guesses ]_vars

\* add_guess panicked on a guess whose word fits and whose feedback is too
\* short, with a guess already stored
LengthInvariantWitness ==
    /\ op = "panic"
    /\ Len(guesses) >= 1
    /\ Len(arg.word) = word_len
    /\ Len(arg.feedback) < word_len

\* C11: the history is a LIFO stack: an add_guess step pushes its argument
\* on top, a pop_guess step removes the top element and nothing else, and
\* on an empty history pop_guess changes nothing and does not panic.
LifoStack ==
    [][ /\ op' = "add_guess" => guesses' = Append(guesses, arg')
        /\ (op # "panic" /\ op' = "pop_guess") =>
              /\ guesses' = IF guesses = <<>> THEN <<>>
                            ELSE SubSeq(guesses, 1, Len(guesses) - 1)
              /\ word_len' = word_len
        /\ (op' = "panic") => add_guess_panics(Self, arg') ]_vars

\* pop_guess has removed the top of a history of MaxGuesses guesses
LifoStackWitness ==
    /\ op = "pop_guess"
    /\ Len(guesses) >= 1
    /\ Len(guesses) = MaxGuesses - 1

(***************************************************************************)
(* SpecParse: parse_pattern applied to a pattern string.                   *)
(***************************************************************************)
\* the characters of the pattern strings: the six recognised ones and two
\* unrecognised ones
PatternCharset == {"G", "g", "Y", "y", "X", "x", "Z", "1"}

InitParse ==
    /\ SolverIdle
    /\ FnIdle
    /\ AppIdle
    /\ \E n \in 0..MaxLen : \E p \in WordsOver(PatternCharset, n) :
          call = [fn |-> "parse_pattern", pattern |-> p]
    /\ ret = [done |-> FALSE]

\* let r = parse_pattern(pattern)
ParsePattern ==
    /\ ~ret.done
    /\ call.fn = "parse_pattern"
    /\ ret' = [done |-> TRUE, result |-> parse_pattern(call.pattern)]
    /\ UNCHANGED <<solverVars, fnVars, call, appVars>>

NextParse == ParsePattern

SpecParse == InitParse /\ [][NextParse]_vars

\* the Feedback a recognised character stands for
SymbolOf(ch) ==
    CASE ch \in {"G", "g"} -> Green
      [] ch \in {"Y", "y"} -> Yellow
      [] ch \in {"X", "x"} -> Gray

Recognised == {"G", "g", "Y", "y", "X", "x"}

\* C12: parse_pattern maps G/g to Green, Y/y to Yellow, X/x to Gray, keeping
\* length and order; when the input holds another character it returns an
\* error naming the first such character, and no feedback sequence.
ParsePatternCorrect ==
    ret.done =>
        LET p == call.pattern
            r == ret.result
            badAt == {i \in DOMAIN p : p[i] \notin Recognised}
        IN  IF badAt = {}
            THEN /\ r.ok
                 /\ Len(r.value) = Len(p)
                 /\ \A i \in DOMAIN p : r.value[i] = SymbolOf(p[i])
            ELSE /\ ~r.ok
                 /\ "value" \notin DOMAIN r
                 /\ \E i \in badAt :
                       /\ \A j \in badAt : i <= j
                       /\ r.bad = p[i]

\* an error for a pattern with two different unrecognised characters after
\* a lower-case recognised one
ParsePatternWitness ==
    /\ ret.done
    /\ ~ret.result.ok
    /\ Len(call.pattern) = 3
    /\ call.pattern[1] = "y"
    /\ call.pattern[2] = "1"
    /\ call.pattern[3] = "Z"
    /\ ret.result.bad = "1"

(***************************************************************************)
(* fn score_and_sort(words, solutions) -> Vec<(String, usize)>             *)
(*                                                   src/src/scoring.rs    *)
(***************************************************************************)
SOLUTION_BONUS == 10

\* *map.entry(c).or_insert(0) += 1
Bump(map, c) ==
    IF c \in DOMAIN map THEN [map EXCEPT ![c] = @ + 1] ELSE map @@ (c :> 1)

\* map.get(&c).unwrap_or(&0)
GetOr0(map, c) == IF c \in DOMAIN map THEN map[c] ELSE 0

EmptyMap == [c \in {} |-> 0]

\* the set of letters of word w
Letters(w) == {w[i] : i \in DOMAIN w}

\* the sum of f[x] over the finite set S
RECURSIVE SumOver(_, _)
SumOver(S, f) ==
    IF S = {} THEN 0
    ELSE LET x == CHOOSE y \in S : TRUE
         IN  f[x] + SumOver(S \ {x}, f)

\* `for c in word.chars() { freq[c] += 1 }`, from character i on
RECURSIVE FreqChars(_, _, _)
FreqChars(word, i, freq) ==
    IF i > Len(word) THEN freq
    ELSE FreqChars(word, i + 1, Bump(freq, word[i]))

\* `for word in words { ... }`, from word k on
RECURSIVE FreqWords(_, _, _)
FreqWords(ws, k, freq) ==
    IF k > Len(ws) THEN freq
    ELSE FreqWords(ws, k + 1, FreqChars(ws[k], 1, freq))

\* the closure of the map(): the (word, score) pair of one candidate
Scored(word, freq, solutions) ==
    [word |-> word,
     score |-> SumOver(Letters(word), freq)
               + IF word \in solutions THEN SOLUTION_BONUS ELSE 0]

\* Scored with a frequency table kept per position, summed over the
\* positions of the word
RECURSIVE SumPositions(_, _, _)
SumPositions(word, i, ws) ==
    IF i > Len(word) THEN 0
    ELSE Cardinality({k \in DOMAIN ws : i <= Len(ws[k]) /\ ws[k][i] = word[i]})
         + SumPositions(word, i + 1, ws)

\* InsertStable putting x before the elements of equal score
InsertBeforeEqual(srt, x) ==
    LET ahead == {i \in DOMAIN srt : srt[i].score > x.score}
        k == IF ahead = {} THEN 0
             ELSE CHOOSE i \in ahead : \A j \in ahead : j <= i
    IN  SubSeq(srt, 1, k) \o <<x>> \o SubSeq(srt, k + 1, Len(srt))

\* the element x put into the sequence srt, sorted by non-increasing score,
\* behind every element whose score is not smaller
InsertStable(srt, x) ==
    LET ahead == {i \in DOMAIN srt : srt[i].score >= x.score}
        k == IF ahead = {} THEN 0
             ELSE CHOOSE i \in ahead : \A j \in ahead : j <= i
    IN  SubSeq(srt, 1, k) \o <<x>> \o SubSeq(srt, k + 1, Len(srt))

\* scored.sort_by(|a, b| b.1.cmp(&a.1)): a stable sort, highest score first
RECURSIVE SortByScoreDesc(_, _, _)
SortByScoreDesc(scored, i, srt) ==
    IF i > Len(scored) THEN srt
    ELSE SortByScoreDesc(scored, i + 1, InsertStable(srt, scored[i]))

\* score_and_sort with the per-position frequency table
score_and_sortPositional(ws, solutions) ==
    SortByScoreDesc(
        [k \in DOMAIN ws |->
            [word |-> ws[k],
             score |-> SumPositions(ws[k], 1, ws)
                       + IF ws[k] \in solutions THEN SOLUTION_BONUS ELSE 0]],
        1, <<>>)

score_and_sort(ws, solutions) ==
    LET freq == FreqWords(ws, 1, EmptyMap)
    IN  SortByScoreDesc([k \in DOMAIN ws |-> Scored(ws[k], freq, solutions)],
                        1, <<>>)

(***************************************************************************)
(* SpecScore: score_and_sort applied to a candidate list and a solution    *)
(* set.                                                                    *)
(***************************************************************************)
\* most candidates in one call
MaxCands == 3

\* the candidate words: one repeating a letter, two that are permutations
\* of each other, one sharing a single letter with them
ScoreWords ==
    { <<"a", "a">>, <<"a", "b">>, <<"b", "a">>, <<"b", "c">> }

InitScore ==
    /\ SolverIdle
    /\ FnIdle
    /\ AppIdle
    /\ \E n \in 0..MaxCands : \E ws \in [1..n -> ScoreWords] :
       \E sol \in SUBSET ScoreWords :
          call = [fn |-> "score_and_sort", words |-> ws, solutions |-> sol]
    /\ ret = [done |-> FALSE]

\* let scored = score_and_sort(&word_refs, &solutions)
ScoreAndSort ==
    /\ ~ret.done
    /\ call.fn = "score_and_sort"
    /\ ret' = [done |-> TRUE,
               result |-> score_and_sort(call.words, call.solutions)]
    /\ UNCHANGED <<solverVars, fnVars, call, appVars>>

NextScore == ScoreAndSort

SpecScore == InitScore /\ [][NextScore]_vars

\* the number of candidates of ws that hold letter c at least once
Coverage(ws, c) == Cardinality({k \in DOMAIN ws : c \in Letters(ws[k])})

\* C14 as claimed: each candidate's score is the sum over its distinct
\* letters of the number of candidates holding that letter at least once,
\* plus 10 when the candidate is in the solution set.
ScoreIsCoverage ==
    ret.done =>
        \A k \in DOMAIN ret.result :
            LET w == ret.result[k].word
            IN  ret.result[k].score
                  = SumOver(Letters(w), [c \in Letters(w) |->
                                            Coverage(call.words, c)])
                    + IF w \in call.solutions THEN SOLUTION_BONUS ELSE 0

\* word v is a rearrangement of word w
IsPermutation(v, w) ==
    /\ Len(v) = Len(w)
    /\ \A c \in Letters(v) \cup Letters(w) :
          Occurrences(v, c) = Occurrences(w, c)

\* C15 as claimed: candidates that are permutations of one letter multiset
\* receive identical scores.
PermutationsScoreEqual ==
    ret.done =>
        \A i, j \in DOMAIN ret.result :
            IsPermutation(ret.result[i].word, ret.result[j].word)
                => ret.result[i].score = ret.result[j].score

\* C15 amended: candidates that are permutations of one letter multiset and
\* are both inside or both outside the solution set receive identical
\* scores; when exactly one is in the solution set its score is higher by
\* the bonus of 10.
PermutationsScoreEqualUpToBonus ==
    ret.done =>
        \A i, j \in DOMAIN ret.result :
            LET v == ret.result[i].word
                w == ret.result[j].word
            IN  IsPermutation(v, w) =>
                  /\ (v \in call.solutions <=> w \in call.solutions)
                        => ret.result[i].score = ret.result[j].score
                  /\ (v \in call.solutions /\ w \notin call.solutions)
                        => ret.result[i].score
                             = ret.result[j].score + SOLUTION_BONUS

\* two different permutations of one multiset, one of them a solution,
\* scored in one call together with a word repeating one of their letters
PermutationsWitness ==
    /\ ret.done
    /\ \E i, j \in DOMAIN ret.result :
          /\ ret.result[i].word # ret.result[j].word
          /\ IsPermutation(ret.result[i].word, ret.result[j].word)
          /\ ret.result[i].word \in call.solutions
          /\ ret.result[j].word \notin call.solutions
    /\ \E k \in DOMAIN call.words : call.words[k] = <<"a", "a">>

\* C16: the output holds one pair per input candidate and nothing else, by
\* non-increasing score, candidates of equal score in input order; an empty
\* input gives an empty output.
SortedStableComplete ==
    ret.done =>
        LET out == ret.result
        IN  /\ Len(out) = Len(call.words)
            /\ call.words = <<>> => out = <<>>
            /\ \A i \in DOMAIN out : i > 1 => out[i - 1].score >= out[i].score
            /\ \E pi \in Permutations(DOMAIN out) :
                  /\ \A i \in DOMAIN out : out[i].word = call.words[pi[i]]
                  /\ \A i, j \in DOMAIN out :
                        (i < j /\ out[i].score = out[j].score)
                            => pi[i] < pi[j]
                  /\ \A i, j \in DOMAIN out :
                        call.words[pi[i]] = call.words[pi[j]]
                            => out[i].score = out[j].score

\* an output of three pairs in which a tie was kept in input order and a
\* later candidate moved ahead of an earlier one
SortedStableWitness ==
    /\ ret.done
    /\ Len(ret.result) = 3
    /\ ret.result[1].word = call.words[3]
    /\ ret.result[2].score = ret.result[3].score
    /\ ret.result[2].word # ret.result[3].word
    /\ ret.result[1].score > ret.result[2].score

(***************************************************************************)
(* fn compute_constraint_summary(solver) -> ConstraintSummary              *)
(*                                                   src/src/analysis.rs   *)
(* greens is a sequence of [letter, pos, word], yellows a sequence of      *)
(* [letter, positions, word]; positions count from 0 as enumerate() does.  *)
(* gray_letters is the HashSet; the order in which it is turned into the   *)
(* Vec grays is chosen by the action that calls the function.              *)
(***************************************************************************)
\* the position of the first element of the sequence ys whose letter is c,
\* 0 when there is none: yellows.iter_mut().find(|(l, _, _)| *l == c)
FindLetter(ys, c) ==
    LET hits == {k \in DOMAIN ys : ys[k].letter = c}
    IN  IF hits = {} THEN 0 ELSE CHOOSE k \in hits : \A j \in hits : k <= j

\* the loop over chars.iter().zip(&guess.feedback).enumerate(), from the
\* i-th pair on; zip stops at the shorter of the two
RECURSIVE SummaryPairs(_, _, _, _, _)
SummaryPairs(guess, i, greens, yellows, gy_counts) ==
    IF i > Len(guess.word) \/ i > Len(guess.feedback)
    THEN [greens |-> greens, yellows |-> yellows, gy_counts |-> gy_counts]
    ELSE LET c == guess.word[i]
             pos == i - 1
         IN  CASE guess.feedback[i] = Green ->
                    SummaryPairs(guess, i + 1,
                        Append(greens, [letter |-> c, pos |-> pos,
                                        word |-> guess.word]),
                        yellows, Bump(gy_counts, c))
               [] guess.feedback[i] = Yellow ->
                    LET k == FindLetter(yellows, c)
                    IN  SummaryPairs(guess, i + 1, greens,
                            IF k # 0
                            THEN [yellows EXCEPT
                                     ![k].positions = Append(@, pos)]
                            ELSE Append(yellows,
                                     [letter |-> c, positions |-> <<pos>>,
                                      word |-> guess.word]),
                            Bump(gy_counts, c))
               [] OTHER ->
                    SummaryPairs(guess, i + 1, greens, yellows, gy_counts)

\* min_counts updated by adding the counts of the guesses up
MinUpdateSum(entry, count) == entry + count

\* *entry = (*entry).max(*count)
MinUpdate(entry, count) == IF entry >= count THEN entry ELSE count

\* max_counts updated by overwriting with the newest guess
MaxUpdateOverwrite(m, gy) == gy

\* .and_modify(|m| *m = (*m).min(gy))
MaxUpdate(m, gy) == IF m <= gy THEN m ELSE gy

\* the body of `for guess in solver.guesses()` applied to the accumulators
SummaryGuess(guess, acc) ==
    LET total_counts == CountLetters(guess.word)
        p == SummaryPairs(guess, 1, acc.greens, acc.yellows, EmptyMap)
        gy_counts == p.gy_counts
        excluded == {c \in DOMAIN total_counts :
                        total_counts[c] > GetOr0(gy_counts, c)}
    IN  [greens |-> p.greens,
         yellows |-> p.yellows,
         gray_letters |-> acc.gray_letters \cup excluded,
         min_counts |->
            [c \in DOMAIN acc.min_counts \cup DOMAIN gy_counts |->
                IF c \in DOMAIN gy_counts
                THEN MinUpdate(GetOr0(acc.min_counts, c), gy_counts[c])
                ELSE acc.min_counts[c]],
         max_counts |->
            [c \in DOMAIN acc.max_counts \cup excluded |->
                IF c \in excluded
                THEN IF c \in DOMAIN acc.max_counts
                     THEN MaxUpdate(acc.max_counts[c], GetOr0(gy_counts, c))
                     ELSE GetOr0(gy_counts, c)
                ELSE acc.max_counts[c]]]

RECURSIVE SummaryFrom(_, _, _)
SummaryFrom(gs, k, acc) ==
    IF k > Len(gs) THEN acc
    ELSE SummaryFrom(gs, k + 1, SummaryGuess(gs[k], acc))

compute_constraint_summary(solver) ==
    SummaryFrom(solver.guesses, 1,
        [greens |-> <<>>, yellows |-> <<>>, gray_letters |-> {},
         min_counts |-> EmptyMap, max_counts |-> EmptyMap])

\* the sequences that list every element of the finite set S once:
\* gray_letters.into_iter().collect() in the orders a HashSet may iterate
Orderings(S) ==
    {q \in [1..Cardinality(S) -> S] : \A x \in S : \E i \in DOMAIN q : q[i] = x}

(***************************************************************************)
(* fn compute_solution_pool_stats(all_words, filtered) -> SolutionPoolStats*)
(*                                                   src/src/analysis.rs   *)
(* The two f64 results are kept as the terms they are computed from:       *)
(*   eliminated_percentage  [zero |-> TRUE] for the literal 0.0, else the  *)
(*                          operands of (1.0 - remaining / all) * 100.0;   *)
(*   entropy                [zero |-> TRUE] when the value compares equal  *)
(*                          to 0.0, else the counts and the total of the   *)
(*                          sum of -p * log2(p), p = count / total.        *)
(***************************************************************************)
\* the letter_counts loop for one word: `seen` lets a letter count once
DistinctLetterCounts(word, letter_counts) ==
    [c \in DOMAIN letter_counts \cup Letters(word) |->
        GetOr0(letter_counts, c) + IF c \in Letters(word) THEN 1 ELSE 0]

RECURSIVE LetterCountsFrom(_, _, _)
LetterCountsFrom(filtered, k, letter_counts) ==
    IF k > Len(filtered) THEN letter_counts
    ELSE LetterCountsFrom(filtered, k + 1,
                          DistinctLetterCounts(filtered[k], letter_counts))

\* the sum of -p * log2(p) over the counts: a term with count = total is
\* -1.0 * 0.0, and a sum of such terms (or of none) compares equal to 0.0
EntropySum(letter_counts, total) ==
    IF \A c \in DOMAIN letter_counts : letter_counts[c] = total
    THEN [zero |-> TRUE]
    ELSE [zero |-> FALSE, counts |-> letter_counts, total |-> total]

\* compute_solution_pool_stats without the early 0.0 and with every
\* character counted, as the freq table of score_and_sort is built
compute_solution_pool_statsOccurrences(all_words, filtered) ==
    [total_remaining |-> Len(filtered),
     eliminated_percentage |->
        IF Len(all_words) = 0 THEN [zero |-> TRUE]
        ELSE [zero |-> FALSE, remaining |-> Len(filtered),
              all |-> Len(all_words)],
     entropy |-> EntropySum(FreqWords(filtered, 1, EmptyMap), Len(filtered))]

compute_solution_pool_stats(all_words, filtered) ==
    LET total_remaining == Len(filtered)
    IN  [total_remaining |-> total_remaining,
         eliminated_percentage |->
            IF Len(all_words) = 0 THEN [zero |-> TRUE]
            ELSE [zero |-> FALSE, remaining |-> total_remaining,
                  all |-> Len(all_words)],
         entropy |->
            IF total_remaining <= 1 THEN [zero |-> TRUE]
            ELSE EntropySum(LetterCountsFrom(filtered, 1, EmptyMap),
                            total_remaining)]

(***************************************************************************)
(* SpecAnalysis: the functions of analysis.rs applied to inputs drawn by   *)
(* Init.                                                                   *)
(***************************************************************************)
angle == <<"a", "n", "g", "l", "e">>
ample == <<"a", "m", "p", "l", "e">>
pat_GXXXX == <<Green, Gray, Gray, Gray, Gray>>

\* the finite set S listed in some fixed order
RECURSIVE SeqOfSet(_)
SeqOfSet(S) ==
    IF S = {} THEN <<>>
    ELSE LET x == CHOOSE y \in S : TRUE
         IN  <<x>> \o SeqOfSet(S \ {x})

\* word lengths of the sessions played as a game against one target
SummaryLens == {3}

\* every guess of length n over EngineAlphabet, with any feedback
AnyGuesses(n) ==
    { Guess_new(w, f) : w \in WordsOver(EngineAlphabet, n),
                        f \in Patterns(n) }

\* the guesses of a game against target t: each carries the feedback
\* generate_feedback gives it
GameGuesses(t) ==
    { Guess_new(w, generate_feedback(t, w)) :
         w \in WordsOver(EngineAlphabet, Len(t)) }

\* the two guesses of test_compute_constraint_summary
SummaryTestGuesses ==
    { Guess_new(apple, pat_GXXXX), Guess_new(angle, pat_GYXXX) }

\* the dictionary filtered in a session of length n
SummaryDictionary(n) ==
    IF n = 5 THEN <<apple, angle, ample>>
    ELSE SeqOfSet(WordsOver(EngineAlphabet, n))

SummaryCall(n, h) ==
    [fn |-> "compute_constraint_summary",
     solver |-> [word_len |-> n, guesses |-> h],
     words |-> SummaryDictionary(n)]

\* the history handed to compute_constraint_summary holds at most
\* MaxGuesses guesses: any guesses in the sessions of SessionLens, the
\* guesses of one game in the sessions of SummaryLens, the guesses of the
\* unit test in a session of length 5
InitAnalysis ==
    /\ SolverIdle
    /\ FnIdle
    /\ AppIdle
    /\ ret = [done |-> FALSE]
    /\ \/ \E n \in SessionLens, k \in 0..MaxGuesses :
             \E h \in [1..k -> AnyGuesses(n)] : call = SummaryCall(n, h)
       \/ \E n \in SummaryLens, k \in 0..MaxGuesses :
             \E t \in WordsOver(EngineAlphabet, n) :
                \E h \in [1..k -> GameGuesses(t)] : call = SummaryCall(n, h)
       \/ \E k \in 0..MaxGuesses :
             \E h \in [1..k -> SummaryTestGuesses] : call = SummaryCall(5, h)
       \/ \E k \in 0..2, m \in 0..MaxCands :
             \E d \in [1..k -> ScoreWords], f \in [1..m -> ScoreWords] :
                call = [fn |-> "compute_solution_pool_stats",
                        all_words |-> d, filtered |-> f]

\* let summary = compute_constraint_summary(&solver)
ConstraintSummary ==
    /\ ~ret.done
    /\ call.fn = "compute_constraint_summary"
    /\ LET r == compute_constraint_summary(call.solver)
       IN  \E grays \in Orderings(r.gray_letters) :
              ret' = [done |-> TRUE,
                      result |-> [greens |-> r.greens,
                                  yellows |-> r.yellows,
                                  grays |-> grays,
                                  min_counts |-> r.min_counts,
                                  max_counts |-> r.max_counts]]
    /\ UNCHANGED <<solverVars, fnVars, call, appVars>>

\* let stats = compute_solution_pool_stats(all_words, &filtered)
SolutionPoolStats ==
    /\ ~ret.done
    /\ call.fn = "compute_solution_pool_stats"
    /\ ret' = [done |-> TRUE,
               result |-> compute_solution_pool_stats(call.all_words,
                                                      call.filtered)]
    /\ UNCHANGED <<solverVars, fnVars, call, appVars>>

NextAnalysis ==
    \/ ConstraintSummary
    \/ SolutionPoolStats

SpecAnalysis == InitAnalysis /\ [][NextAnalysis]_vars

\* C17: total_remaining is the number of candidates passed in, and the
\* entropy is 0.0 whenever at most one candidate remains, whatever the
\* dictionary.
PoolStatsBoundary ==
    (ret.done /\ call.fn = "compute_solution_pool_stats") =>
        /\ ret.result.total_remaining = Len(call.filtered)
        /\ Len(call.filtered) <= 1 => ret.result.entropy.zero

\* one remaining candidate that repeats a letter, out of a dictionary of two
PoolStatsWitness ==
    /\ ret.done
    /\ call.fn = "compute_solution_pool_stats"
    /\ call.filtered = << <<"a", "a">> >>
    /\ Len(call.all_words) = 2
    /\ ret.result.entropy.zero
    /\ ret.result.total_remaining = 1

\* the largest element of the non-empty finite set of numbers S
MaxOf(S) == CHOOSE x \in S : \A y \in S : y <= x
\* the smallest element of the non-empty finite set of numbers S
MinOf(S) == CHOOSE x \in S : \A y \in S : x <= y

\* the letters guessed anywhere in the history gs
GuessedLetters(gs) == UNION {Letters(gs[k].word) : k \in DOMAIN gs}

\* letter L is excluded in guess g: fewer Green+Yellow marks than
\* occurrences
ExcludedIn(g, L) == Marks(g.word, g.feedback, L) < Occurrences(g.word, L)

\* C18: min_counts[L] is the maximum over the stored guesses of the number
\* of Green+Yellow marks on L in one guess (letters never marked have no
\* entry), and appending a guess equal to a stored one leaves min_counts and
\* max_counts as they are.
MinCountsIsMax ==
    (ret.done /\ call.fn = "compute_constraint_summary") =>
        LET gs == call.solver.guesses
            r == ret.result
        IN  /\ DOMAIN r.min_counts =
                  {L \in GuessedLetters(gs) :
                      \E k \in DOMAIN gs :
                          Marks(gs[k].word, gs[k].feedback, L) > 0}
            /\ \A L \in DOMAIN r.min_counts :
                  r.min_counts[L] =
                      MaxOf({Marks(gs[k].word, gs[k].feedback, L) :
                                k \in DOMAIN gs})
            /\ \A k \in DOMAIN gs :
                  LET again == compute_constraint_summary(
                                   add_guess(call.solver, gs[k]))
                  IN  /\ again.min_counts = r.min_counts
                      /\ again.max_counts = r.max_counts

\* a history holding the same guess twice, with two marks on one letter
MinCountsWitness ==
    /\ ret.done
    /\ call.fn = "compute_constraint_summary"
    /\ Len(call.solver.guesses) = 2
    /\ call.solver.guesses[1] = call.solver.guesses[2]
    /\ \E L \in DOMAIN ret.result.min_counts : ret.result.min_counts[L] = 2

\* C19: grays lists, each once, exactly the letters that some stored guess
\* excludes (fewer Green+Yellow marks than occurrences in that guess), and
\* max_counts[L] is the minimum over the guesses excluding L of that
\* guess's Green+Yellow count for L.
GraysExact ==
    (ret.done /\ call.fn = "compute_constraint_summary") =>
        LET gs == call.solver.guesses
            r == ret.result
            excluded == {L \in GuessedLetters(gs) :
                            \E k \in DOMAIN gs : ExcludedIn(gs[k], L)}
        IN  /\ {r.grays[i] : i \in DOMAIN r.grays} = excluded
            /\ Len(r.grays) = Cardinality(excluded)
            /\ DOMAIN r.max_counts = excluded
            /\ \A L \in excluded :
                  r.max_counts[L] =
                      MinOf({Marks(gs[k].word, gs[k].feedback, L) :
                                k \in {j \in DOMAIN gs : ExcludedIn(gs[j], L)}})

\* two letters excluded, one of them by two guesses with different
\* Green+Yellow counts, the larger count coming last
GraysWitness ==
    /\ ret.done
    /\ call.fn = "compute_constraint_summary"
    /\ Len(ret.result.grays) = 2
    /\ Len(call.solver.guesses) = 2
    /\ \E L \in DOMAIN ret.result.max_counts :
          LET gs == call.solver.guesses
          IN  /\ ExcludedIn(gs[1], L)
              /\ ExcludedIn(gs[2], L)
              /\ Marks(gs[1].word, gs[1].feedback, L)
                   < Marks(gs[2].word, gs[2].feedback, L)

\* C20: every word filter returns has at least min_counts[L] and, where
\* max_counts[L] is defined, at most max_counts[L] occurrences of each
\* letter L, has L at position p for every greens entry (L, p, _) and has
\* not L at any position listed in the yellows entry of L.
SummaryAgreesWithFilter ==
    (ret.done /\ call.fn = "compute_constraint_summary") =>
        LET r == ret.result
            remaining == filter(call.solver, call.words)
        IN  \A i \in DOMAIN remaining :
                LET w == remaining[i]
                IN  /\ \A L \in DOMAIN r.min_counts :
                          Occurrences(w, L) >= r.min_counts[L]
                    /\ \A L \in DOMAIN r.max_counts :
                          Occurrences(w, L) <= r.max_counts[L]
                    /\ \A k \in DOMAIN r.greens :
                          w[r.greens[k].pos + 1] = r.greens[k].letter
                    /\ \A k \in DOMAIN r.yellows :
                          \A j \in DOMAIN r.yellows[k].positions :
                              w[r.yellows[k].positions[j] + 1]
                                  # r.yellows[k].letter

\* a history of two guesses with greens, yellows, an excluded letter and a
\* lower bound of 2, for which filter still returns a word
SummaryAgreesWitness ==
    /\ ret.done
    /\ call.fn = "compute_constraint_summary"
    /\ Len(call.solver.guesses) = 2
    /\ ret.result.greens # <<>>
    /\ ret.result.yellows # <<>>
    /\ ret.result.grays # <<>>
    /\ \E L \in DOMAIN ret.result.min_counts : ret.result.min_counts[L] = 2
    /\ filter(call.solver, call.words) # <<>>

(***************************************************************************)
(* struct App and its key handlers        src/src/ui/app.rs,               *)
(*                                        src/src/ui/handlers/*.rs         *)
(* A String is the sequence of its characters.  The model's characters are *)
(* one byte long in UTF-8, except KelvinSign (U+212A, three bytes), whose  *)
(* lower case is the one-byte "k".                                         *)
(* app holds the fields the handlers of Solver and Game mode use and the   *)
(* fields enter_history_mode writes; the database, the history data and    *)
(* the keys that browse it, the panel toggles Ctrl+H and Ctrl+A and the    *)
(* analysis caches filled by recompute_analysis are left out, and of the   *)
(* LogBuffer only the lines pushed by the last key handler are kept        *)
(* (app.log).                                                              *)
(* app.added holds the guesses the last handler handed to add_guess,       *)
(* app.panicked whether a handler has panicked.                            *)
(***************************************************************************)
KelvinSign == "KELVIN"

\* char::len_utf8
len_utf8(c) == IF c = KelvinSign THEN 3 ELSE 1

\* str::len: the length in bytes
RECURSIVE str_len(_)
str_len(s) == IF s = <<>> THEN 0 ELSE len_utf8(Head(s)) + str_len(Tail(s))

\* char::to_lowercase on the characters the model uses
char_to_lowercase(c) ==
    CASE c = "A" -> "a"
      [] c = "B" -> "b"
      [] c = "G" -> "g"
      [] c = "X" -> "x"
      [] c = "Y" -> "y"
      [] c = "Z" -> "z"
      [] c = KelvinSign -> "k"
      [] OTHER -> c

\* str::to_lowercase
to_lowercase(s) == [i \in DOMAIN s |-> char_to_lowercase(s[i])]

is_whitespace(c) == c = " "

\* str::trim
RECURSIVE trim_start(_)
trim_start(s) ==
    IF s # <<>> /\ is_whitespace(Head(s)) THEN trim_start(Tail(s)) ELSE s

RECURSIVE trim_end(_)
trim_end(s) ==
    IF s # <<>> /\ is_whitespace(s[Len(s)])
    THEN trim_end(SubSeq(s, 1, Len(s) - 1))
    ELSE s

trim(s) == trim_end(trim_start(s))

\* str::split_whitespace().collect(): the maximal runs of characters that
\* are not whitespace; cur is the run being read, parts the runs read
RECURSIVE SplitFrom(_, _, _, _)
SplitFrom(s, i, cur, parts) ==
    IF i > Len(s)
    THEN IF cur = <<>> THEN parts ELSE Append(parts, cur)
    ELSE IF is_whitespace(s[i])
    THEN SplitFrom(s, i + 1, <<>>,
                   IF cur = <<>> THEN parts ELSE Append(parts, cur))
    ELSE SplitFrom(s, i + 1, Append(cur, s[i]), parts)

split_whitespace(s) == SplitFrom(s, 1, <<>>, <<>>)

Incomplete == [kind |-> "Incomplete"]
Invalid(msg) == [kind |-> "Invalid", msg |-> msg]
Valid == [kind |-> "Valid"]

\* InputHandler::input_status
input_status(a) ==
    IF a.mode = "Game"
    THEN LET guess == trim(a.input)
         IN  IF guess = <<>> THEN Incomplete
             ELSE IF str_len(guess) # a.solver.word_len
             THEN Invalid("guess length mismatch")
             ELSE IF to_lowercase(guess) \notin a.allowed_lookup
             THEN Invalid("word not in allowed list")
             ELSE Valid
    ELSE LET parts == split_whitespace(a.input)
         IN  IF Len(parts) = 0 THEN Incomplete
             ELSE IF Len(parts) = 1 THEN Incomplete
             ELSE IF Len(parts) > 2 THEN Invalid("too many fields")
             ELSE IF str_len(parts[1]) # a.solver.word_len
             THEN Invalid("guess length mismatch")
             ELSE IF to_lowercase(parts[1]) \notin a.allowed_lookup
             THEN Invalid("word not in allowed list")
             ELSE IF str_len(parts[2]) # a.solver.word_len
             THEN Invalid("pattern length mismatch")
             ELSE IF ~parse_pattern(parts[2]).ok
             THEN Invalid("pattern must be G/Y/X")
             ELSE Valid

\* InputHandler::parse_input; in Game mode the feedback is left empty
parse_input(a) ==
    IF a.mode = "Game"
    THEN LET word == to_lowercase(trim(a.input))
         IN  IF str_len(word) # a.solver.word_len THEN [kind |-> "Invalid"]
             ELSE [kind |-> "Valid", word |-> word, feedback |-> <<>>]
    ELSE LET parts == split_whitespace(a.input)
         IN  IF Len(parts) # 2 THEN [kind |-> "Incomplete"]
             ELSE LET word == to_lowercase(parts[1])
                      pattern == parts[2]
                  IN  IF \/ str_len(word) # a.solver.word_len
                         \/ word \notin a.allowed_lookup
                      THEN [kind |-> "Invalid"]
                      ELSE IF str_len(pattern) # a.solver.word_len
                      THEN [kind |-> "Invalid"]
                      ELSE IF ~parse_pattern(pattern).ok
                      THEN [kind |-> "Invalid"]
                      ELSE [kind |-> "Valid", word |-> word,
                            feedback |-> parse_pattern(pattern).value]

\* the guesses a new game allows: remaining_guesses = 6
GuessesPerGame == 6

\* App::log: push one line
AppLog(a, msg) == [a EXCEPT !.log = Append(@, msg)]

\* a panic unwinds out of the handler and ends the program
Panic(a) == [a EXCEPT !.panicked = TRUE]

\* recompute that keeps the suggestions of a history that became empty
recomputeKeeping(a) ==
    LET remaining == filter(a.solver, a.solution_words)
    IN  [a EXCEPT !.suggestions =
                      IF a.solver.guesses = <<>> THEN @
                      ELSE score_and_sort(remaining, a.allowed_lookup),
                  !.analysis_dirty = TRUE]

\* SolverHandler::recompute
recompute(a) ==
    LET remaining == filter(a.solver, a.solution_words)
    IN  [a EXCEPT !.suggestions =
                      IF a.solver.guesses = <<>> THEN <<>>
                      ELSE score_and_sort(remaining, a.allowed_lookup),
                  !.analysis_dirty = TRUE]

\* SolverHandler::undo_guess
undo_guess(a) ==
    IF a.solver.guesses # <<>>
    THEN recompute([a EXCEPT !.solver = pop_guess(@)])
    ELSE a

\* wordlist::select_random_word: the words it may return, none for Err
select_random_word(ws, wl) ==
    {ws[i] : i \in {j \in DOMAIN ws : str_len(ws[j]) = wl}}

\* start_new_game without the new SolverState
start_new_gameKeepingHistory(a) ==
    LET targets == select_random_word(a.solution_words, a.solver.word_len)
    IN  IF targets = {}
        THEN {AppLog(a, "Failed to start new game: no words available")}
        ELSE { recompute([a EXCEPT !.mode = "Game",
                                   !.target_word = <<target>>,
                                   !.remaining_guesses = GuessesPerGame,
                                   !.game_won = FALSE,
                                   !.game_over = FALSE,
                                   !.show_suggestions = FALSE,
                                   !.show_analysis = FALSE,
                                   !.input = <<>>]) : target \in targets }

\* GameHandler::start_new_game: the states it may leave, one per target
start_new_game(a) ==
    LET targets == select_random_word(a.solution_words, a.solver.word_len)
    IN  IF targets = {}
        THEN {AppLog(a, "Failed to start new game: no words available")}
        ELSE { recompute([a EXCEPT !.mode = "Game",
                                   !.target_word = <<target>>,
                                   !.remaining_guesses = GuessesPerGame,
                                   !.game_won = FALSE,
                                   !.game_over = FALSE,
                                   !.show_suggestions = FALSE,
                                   !.show_analysis = FALSE,
                                   !.solver = new(a.solver.word_len),
                                   !.input = <<>>]) : target \in targets }

\* GameHandler::toggle_game_mode
toggle_game_mode(a) ==
    IF a.mode = "Solver"
    THEN LET a1 == AppLog(a, "Starting new game")
             a2 == IF a1.solver_session_active
                   THEN [AppLog(a1, "Solver session abandoned")
                            EXCEPT !.solver_session_active = FALSE,
                                   !.solver_session_paused = FALSE]
                   ELSE a1
         IN  start_new_game(a2)
    ELSE LET a1 == [AppLog(a, "Switching to solver mode")
                       EXCEPT !.mode = "Solver",
                              !.solver_session_active = TRUE,
                              !.solver_session_paused = FALSE]
         IN  {recompute(AppLog(a1, "Solver session started"))}

\* check_game_state that takes one Exact symbol for a win
check_game_stateAnyExact(a, feedback) ==
    IF \E i \in DOMAIN feedback : feedback[i] = Green
    THEN [AppLog(AppLog(a, "Target word was"), "Game won!")
             EXCEPT !.game_won = TRUE, !.game_over = TRUE]
    ELSE IF a.remaining_guesses = 0
    THEN [AppLog(a, "Game over: out of guesses") EXCEPT !.game_over = TRUE]
    ELSE a

\* GameHandler::check_game_state
check_game_state(a, feedback) ==
    IF \A i \in DOMAIN feedback : feedback[i] = Green
    THEN [AppLog(AppLog(a, "Target word was"), "Game won!")
             EXCEPT !.game_won = TRUE, !.game_over = TRUE]
    ELSE IF a.remaining_guesses = 0
    THEN [AppLog(a, "Game over: out of guesses") EXCEPT !.game_over = TRUE]
    ELSE a

\* HistoryHandler::enter_history_mode; load_history fills history_data,
\* which no other field depends on
enter_history_mode(a) ==
    LET a1 == [a EXCEPT !.mode = "History",
                        !.history_view_mode = "Stats",
                        !.history_page = 0]
    IN  IF a1.solver_session_active /\ ~a1.solver_session_paused
        THEN AppLog([a1 EXCEPT !.solver_session_paused = TRUE],
                    "Solver session paused")
        ELSE a1

\* exit_history_mode that starts the session over
exit_history_modeNewSession(a) ==
    LET a1 == [a EXCEPT !.mode = "Solver", !.solver = new(a.solver.word_len)]
    IN  IF a1.solver_session_active /\ a1.solver_session_paused
        THEN AppLog([a1 EXCEPT !.solver_session_paused = FALSE],
                    "Solver session resumed")
        ELSE a1

\* HistoryHandler::exit_history_mode
exit_history_mode(a) ==
    LET a1 == [a EXCEPT !.mode = "Solver"]
    IN  IF a1.solver_session_active /\ a1.solver_session_paused
        THEN AppLog([a1 EXCEPT !.solver_session_paused = FALSE],
                    "Solver session resumed")
        ELSE a1

\* InputHandler::reset_solver_and_start_new_session
reset_solver_and_start_new_session(a) ==
    AppLog([a EXCEPT !.solver = new(a.solver.word_len),
                     !.suggestions = <<>>,
                     !.analysis_dirty = TRUE,
                     !.solver_session_active = TRUE,
                     !.solver_session_paused = FALSE],
           "Solver session started")

\* generate_feedback reads t[i] for every position i of the guess: TRUE
\* when the index is out of bounds
generate_feedback_panics(target, guess) == Len(guess) > Len(target)

\* submit_input, the branch taken when input_status is not Valid
RejectInput(a) == AppLog(a, "Input rejected")

\* submit_input, the branch of Game mode
SubmitGame(a) ==
    IF a.target_word = <<>> THEN a
    ELSE
    LET target == a.target_word[1]
        word == to_lowercase(trim(a.input))
    IN  IF word \notin a.allowed_lookup
        THEN AppLog(a, "Rejected guess not in allowed list")
        ELSE
        LET a1 == AppLog(a, "Game guess submitted")
        IN  IF generate_feedback_panics(target, word) THEN Panic(a1)
            ELSE
            LET feedback == generate_feedback(target, word)
                guess == Guess_new(word, feedback)
                a2 == [a1 EXCEPT !.added = Append(@, guess)]
            IN  IF add_guess_panics(a2.solver, guess) THEN Panic(a2)
                \* remaining_guesses -= 1 on a usize
                ELSE IF a2.remaining_guesses = 0 THEN Panic(a2)
                ELSE
                LET a3 == [a2 EXCEPT !.solver = add_guess(@, guess),
                                     !.remaining_guesses = @ - 1]
                IN  [recompute(check_game_state(a3, feedback))
                        EXCEPT !.input = <<>>]

\* submit_input, the branch of Solver mode
SubmitSolver(a) ==
    LET parsed == parse_input(a)
    IN  IF parsed.kind # "Valid" THEN a
        ELSE IF parsed.word \notin a.allowed_lookup
        THEN AppLog(a, "Rejected guess not in allowed list")
        ELSE
        LET guess == Guess_new(parsed.word, parsed.feedback)
            a1 == [a EXCEPT !.added = Append(@, guess)]
        IN  IF add_guess_panics(a1.solver, guess) THEN Panic(a1)
            ELSE
            LET a2 == [a1 EXCEPT !.solver = add_guess(@, guess)]
                pool_size_after == Len(filter(a2.solver, a2.solution_words))
                tracked == /\ a2.solver_session_active
                           /\ ~a2.solver_session_paused
                a3 == AppLog(a2, IF tracked THEN "Solver guess"
                                 ELSE "Solver guess submitted")
                a4 == [recompute(a3) EXCEPT !.input = <<>>]
                all_green == \A i \in DOMAIN parsed.feedback :
                                 parsed.feedback[i] = Green
            IN  IF tracked /\ (pool_size_after = 1 \/ all_green)
                THEN reset_solver_and_start_new_session(
                         AppLog(a4, "Solver session completed"))
                ELSE a4

\* InputHandler::submit_input: the states it may leave
submit_input(a) ==
    IF a.mode = "Game" /\ a.game_over
    THEN start_new_game(AppLog(a, "Starting new game"))
    ELSE IF input_status(a).kind # "Valid"
    THEN {RejectInput(a)}
    ELSE IF a.mode = "Game"
    THEN {SubmitGame(a)}
    ELSE {SubmitSolver(a)}

(***************************************************************************)
(* SpecApp: one App in a session of three-letter words, driven by key      *)
(* events.                                                                 *)
(***************************************************************************)
w_aab == <<"a", "a", "b">>
w_aba == <<"a", "b", "a">>
w_baa == <<"b", "a", "a">>

w_k == <<"k">>

\* App::new(words, solution_words, word_len, ..): load_words hands over the
\* lines of words.txt as they are.  AppWords holds lowercase words of the
\* session length, one of them no solution; AppWordsMixed also a shorter
\* word
AppWords == <<w_aab, w_aba, w_baa>>
AppWordsMixed == <<w_aab, w_aba, w_baa, w_k>>
AppSolutionWords == <<w_aab, w_aba>>

\* the texts the user types, character by character
TypedTexts ==
    { <<"a", "a", "b", " ", "G", "G", "X", " ", "X">>,
      <<"a", "a", "b", " ", "g", "y", "x">>,
      <<"a", "a", "b", " ", "G", "Z", "X">>,
      <<"a", "a", "b", " ", KelvinSign>>,
      <<"a", "b", "a", " ", "G", "G", "G">>,
      <<"a", "b", "b">>,
      <<"A", "a", "b", "b">>,
      <<KelvinSign, " ", "G", "G", "G">>,
      <<" ", "a", "b", "a", " ">> }

TypedPrefixes ==
    UNION { { SubSeq(t, 1, k) : k \in 0..Len(t) } : t \in TypedTexts }

\* the word length handed to App::new
AppWordLen == Len(w_aab)

\* App::new(words, solution_words, word_len, logs, db_pool)
App_new(ws, solution_words, wl) ==
    [mode |-> "Solver",
     solution_words |-> solution_words,
     allowed_lookup |-> {ws[i] : i \in DOMAIN ws},
     solver |-> new(wl),
     input |-> <<>>,
     suggestions |-> <<>>,
     target_word |-> <<>>,
     remaining_guesses |-> GuessesPerGame,
     game_won |-> FALSE,
     game_over |-> FALSE,
     analysis_dirty |-> TRUE,
     solver_session_active |-> TRUE,
     solver_session_paused |-> FALSE,
     show_suggestions |-> TRUE,
     show_analysis |-> TRUE,
     history_view_mode |-> "Stats",
     history_page |-> 0,
     log |-> <<>>,
     added |-> <<>>,
     panicked |-> FALSE]

InitApp ==
    /\ SolverIdle
    /\ FnIdle
    /\ CallIdle
    /\ LogIdle
    /\ \E ws \in {AppWords, AppWordsMixed} :
          app = App_new(ws, AppSolutionWords, AppWordLen)

\* app as a key handler finds it; in History mode handle_key hands every
\* key to handle_history_key, which leaves the keys of the main match
\* alone but for Ctrl+R
OnKey == [app EXCEPT !.log = <<>>, !.added = <<>>]

\* (KeyCode::Char(c), _) => self.app.input.push(c)
KeyChar ==
    /\ ~app.panicked
    /\ app.mode # "History"
    /\ \E c \in {"a", "b", "A", "g", "y", "x", "G", "X", "Z", " ",
                 KelvinSign} :
          /\ Append(app.input, c) \in TypedPrefixes
          /\ app' = [OnKey EXCEPT !.input = Append(@, c)]
    /\ UNCHANGED <<solverVars, fnVars, callVars, logVars>>

\* (KeyCode::Backspace, _) => self.app.input.pop()
KeyBackspace ==
    /\ ~app.panicked
    /\ app.mode # "History"
    /\ app' = [OnKey EXCEPT
                  !.input = IF @ = <<>> THEN @ ELSE SubSeq(@, 1, Len(@) - 1)]
    /\ UNCHANGED <<solverVars, fnVars, callVars, logVars>>

\* (KeyCode::Enter, _) => self.submit_input(); a Solver-mode history grows
\* to MaxGuesses guesses at most
KeyEnter ==
    /\ ~app.panicked
    /\ app.mode # "History"
    /\ (app.mode = "Solver" /\ input_status(app).kind = "Valid")
          => Len(app.solver.guesses) < MaxGuesses
    /\ app' \in submit_input(OnKey)
    /\ UNCHANGED <<solverVars, fnVars, callVars, logVars>>

\* Ctrl+G: toggle_game_mode
KeyCtrlG ==
    /\ ~app.panicked
    /\ app.mode # "History"
    /\ app' \in toggle_game_mode(AppLog(OnKey,
                                        "Switching to game mode"))
    /\ UNCHANGED <<solverVars, fnVars, callVars, logVars>>

\* Ctrl+S: back to Solver mode from a game
KeyCtrlS ==
    /\ ~app.panicked
    /\ app.mode # "History"
    /\ app' = IF app.mode = "Game"
              THEN recompute([AppLog(OnKey,
                                     "Switching to solver mode")
                                 EXCEPT !.mode = "Solver"])
              ELSE OnKey
    /\ UNCHANGED <<solverVars, fnVars, callVars, logVars>>

\* Ctrl+Z that undoes in Game mode too
KeyCtrlZAnyMode ==
    /\ ~app.panicked
    /\ app.mode # "History"
    /\ app' = undo_guess(AppLog(OnKey, "Undo requested"))
    /\ UNCHANGED <<solverVars, fnVars, callVars, logVars>>

\* Ctrl+Z: undo, in Solver mode only
KeyCtrlZ ==
    /\ ~app.panicked
    /\ app.mode # "History"
    /\ app' = IF app.mode = "Solver"
              THEN undo_guess(AppLog(OnKey, "Undo requested"))
              ELSE OnKey
    /\ UNCHANGED <<solverVars, fnVars, callVars, logVars>>

\* Ctrl+R: into History mode from handle_key, back from handle_history_key
KeyCtrlR ==
    /\ ~app.panicked
    /\ app' = IF app.mode # "History"
              THEN enter_history_mode(AppLog(OnKey,
                                             "Switching to history mode"))
              ELSE exit_history_mode(AppLog(OnKey,
                                            "Returning to solver mode"))
    /\ UNCHANGED <<solverVars, fnVars, callVars, logVars>>

NextApp ==
    \/ KeyChar
    \/ KeyBackspace
    \/ KeyEnter
    \/ KeyCtrlG
    \/ KeyCtrlS
    \/ KeyCtrlZ
    \/ KeyCtrlR

SpecApp == InitApp /\ [][NextApp]_vars

\* the app is in a finished game
FinishedGame(a) == a.mode = "Game" /\ a.game_over

\* the input is one of the rejected kinds: in Game mode the trimmed text is
\* empty, of the wrong length or not an allowed word; in Solver mode it has
\* not two fields, or its word is of the wrong length or not allowed, or
\* its pattern is of the wrong length or holds a character other than
\* G, Y, X in either case
RejectedKind(a) ==
    IF a.mode = "Game"
    THEN LET word == trim(a.input)
         IN  \/ word = <<>>
             \/ Len(word) # a.solver.word_len
             \/ to_lowercase(word) \notin a.allowed_lookup
    ELSE LET parts == split_whitespace(a.input)
         IN  \/ Len(parts) # 2
             \/ /\ Len(parts) = 2
                /\ \/ Len(parts[1]) # a.solver.word_len
                   \/ to_lowercase(parts[1]) \notin a.allowed_lookup
                   \/ Len(parts[2]) # a.solver.word_len
                   \/ \E i \in DOMAIN parts[2] :
                         parts[2][i] \notin {"G", "Y", "X", "g", "y", "x"}

\* C13: when submit_input runs outside a finished game on an input whose
\* status is not Valid (wrong field count, word of the wrong length or not
\* in the allowed list, pattern of the wrong length or with a character
\* other than G/Y/X), the app is left as it was but for one log line,
\* "Input rejected"; and every guess submit_input hands to add_guess has a
\* word and a feedback of the session length.
RejectedInputKeepsState ==
    [][ app' \in submit_input(OnKey) =>
          /\ ( /\ ~FinishedGame(app)
               /\ \/ input_status(app).kind # "Valid"
                  \/ RejectedKind(app) )
                => app' = [app EXCEPT !.log = <<"Input rejected">>,
                                      !.added = <<>>]
          /\ \A i \in DOMAIN app'.added :
                /\ Len(app'.added[i].word) = app.solver.word_len
                /\ Len(app'.added[i].feedback) = app.solver.word_len
          /\ ~app'.panicked ]_vars

(***************************************************************************)
(* fn compute_position_analysis(words, solver) -> PositionAnalysis         *)
(*                                                   src/src/analysis.rs   *)
(* Position pos of the code is position pos + 1 here.  The loop over the   *)
(* words is followed position by position: what it does at one position    *)
(* does not depend on the others.  An Option is <<>> for None and <<c>>    *)
(* for Some(c).                                                            *)
(***************************************************************************)
\* the loop `for word in words` at position p, from the k-th word on:
\* letters is possible_letters[p], freq is position_frequencies[p]; a word
\* with no character at p is passed over
RECURSIVE PositionScan(_, _, _, _, _)
PositionScan(ws, k, p, letters, freq) ==
    IF k > Len(ws) THEN [letters |-> letters, freq |-> freq]
    ELSE IF p > Len(ws[k]) THEN PositionScan(ws, k + 1, p, letters, freq)
    ELSE LET c == ws[k][p]
         IN  PositionScan(ws, k + 1, p,
                 IF \E i \in DOMAIN letters : letters[i] = c
                 THEN letters ELSE Append(letters, c),
                 Bump(freq, c))

\* InsertLetter ordering by increasing frequency
InsertLetterAscending(srt, c, freq) ==
    LET ahead == {i \in DOMAIN srt : GetOr0(freq, srt[i]) <= GetOr0(freq, c)}
        k == IF ahead = {} THEN 0
             ELSE CHOOSE i \in ahead : \A j \in ahead : j <= i
    IN  SubSeq(srt, 1, k) \o <<c>> \o SubSeq(srt, k + 1, Len(srt))

\* the letter c put into srt, sorted by non-increasing frequency, behind
\* every letter whose frequency is not smaller
InsertLetter(srt, c, freq) ==
    LET ahead == {i \in DOMAIN srt : GetOr0(freq, srt[i]) >= GetOr0(freq, c)}
        k == IF ahead = {} THEN 0
             ELSE CHOOSE i \in ahead : \A j \in ahead : j <= i
    IN  SubSeq(srt, 1, k) \o <<c>> \o SubSeq(srt, k + 1, Len(srt))

\* possible_letters[pos].sort_by(|a, b| freq(b).cmp(freq(a))): a stable
\* sort, most frequent letter first
RECURSIVE SortByFrequencyDesc(_, _, _, _)
SortByFrequencyDesc(letters, i, srt, freq) ==
    IF i > Len(letters) THEN srt
    ELSE SortByFrequencyDesc(letters, i + 1,
                             InsertLetter(srt, letters[i], freq), freq)

compute_position_analysis(ws, solver) ==
    LET scan(p) == PositionScan(ws, 1, p, <<>>, EmptyMap)
    IN  [possible_letters |->
            [p \in 1..solver.word_len |->
                SortByFrequencyDesc(scan(p).letters, 1, <<>>, scan(p).freq)],
         solved_positions |->
            [p \in 1..solver.word_len |->
                IF Len(scan(p).letters) = 1 THEN <<scan(p).letters[1]>>
                ELSE <<>>],
         position_frequencies |->
            [p \in 1..solver.word_len |-> scan(p).freq]]

(***************************************************************************)
(* SpecPosition: compute_position_analysis applied to candidate lists of   *)
(* the session length, as filter returns them.                             *)
(***************************************************************************)
InitPosition ==
    /\ SolverIdle
    /\ FnIdle
    /\ AppIdle
    /\ ret = [done |-> FALSE]
    /\ \/ \E m \in 0..MaxCands :
             \E ws \in [1..m -> ScoreWords] :
                call = [fn |-> "compute_position_analysis",
                        words |-> ws, solver |-> new(2)]
       \/ \E ws \in Permutations({apple, angle, ample}) :
             call = [fn |-> "compute_position_analysis",
                     words |-> <<ws[apple], ws[angle], ws[ample]>>,
                     solver |-> new(5)]

\* compute_position_analysis(&remaining, &self.app.solver)
PositionAnalysis ==
    /\ ~ret.done
    /\ call.fn = "compute_position_analysis"
    /\ ret' = [done |-> TRUE,
               result |-> compute_position_analysis(call.words, call.solver)]
    /\ UNCHANGED <<solverVars, fnVars, call, appVars>>

NextPosition == PositionAnalysis

SpecPosition == InitPosition /\ [][NextPosition]_vars

\* the letters that occur at position p of some word of ws
LettersAt(ws, p) == {ws[k][p] : k \in DOMAIN ws}

\* C21: for every position p of the session, possible_letters[p] lists each
\* letter occurring at p in some candidate exactly once, by non-increasing
\* position_frequencies[p]; position_frequencies[p] counts the candidates
\* holding each letter at p, so its values sum to the number of
\* candidates; solved_positions[p] is Some(c) exactly when c is the only
\* letter at p, and None for an empty pool.
PositionAnalysisCorrect ==
    (ret.done /\ call.fn = "compute_position_analysis") =>
        LET r == ret.result
            ws == call.words
        IN  \A p \in 1..call.solver.word_len :
               LET letters == r.possible_letters[p]
                   freq == r.position_frequencies[p]
               IN  /\ {letters[i] : i \in DOMAIN letters} = LettersAt(ws, p)
                   /\ Len(letters) = Cardinality(LettersAt(ws, p))
                   /\ \A i, j \in DOMAIN letters :
                         i < j => freq[letters[i]] >= freq[letters[j]]
                   /\ DOMAIN freq = LettersAt(ws, p)
                   /\ \A c \in DOMAIN freq :
                         freq[c] =
                            Cardinality({k \in DOMAIN ws : ws[k][p] = c})
                   /\ SumOver(DOMAIN freq, freq) = Len(ws)
                   /\ \A c \in LettersAt(ws, p) :
                         r.solved_positions[p] = <<c>>
                            <=> LettersAt(ws, p) = {c}
                   /\ LettersAt(ws, p) = {}
                         => r.solved_positions[p] = <<>>
                   /\ Len(r.solved_positions[p]) <= 1

\* three candidates agreeing on the first letter, whose second letters are
\* met in the order of increasing frequency
PositionAnalysisWitness ==
    /\ ret.done
    /\ call.fn = "compute_position_analysis"
    /\ call.words = << <<"a", "b">>, <<"a", "a">>, <<"a", "a">> >>
    /\ ret.result.solved_positions = << <<"a">>, <<>> >>
    /\ ret.result.possible_letters[2] = <<"a", "b">>

(***************************************************************************)
(* SpecHandlers: one handler called on an App in any state the key         *)
(* handlers and the unit tests leave it in.  call holds the handler and    *)
(* the App it finds, ret the App it leaves.                                *)
(***************************************************************************)
HandlerModes == {"Solver", "Game", "History"}

\* solution lists: words of the session length, one of them among words of
\* another length, no word of the session length, no word at all
HandlerSolutions == {AppSolutionWords, <<w_k, w_aba>>, <<w_k>>, <<>>}

\* the finished and unfinished games: game_won is set together with
\* game_over only
GameFlags == {<<FALSE, FALSE>>, <<FALSE, TRUE>>, <<TRUE, TRUE>>}

\* an App with h as its guess history and the suggestions recompute gives
\* for it
AppWithHistory(ws, solution_words, h) ==
    recompute([App_new(ws, solution_words, AppWordLen)
                  EXCEPT !.solver.guesses = h])

\* the histories of a game of three-letter words against aba
HandlerHistories ==
    { <<>>,
      <<Guess_new(w_aab, generate_feedback(w_aba, w_aab))>>,
      <<Guess_new(w_baa, generate_feedback(w_aba, w_baa)),
        Guess_new(w_aab, generate_feedback(w_aba, w_aab))>> }

InitStartNewGame ==
    \E m \in HandlerModes, sols \in HandlerSolutions,
       h \in HandlerHistories, flags \in GameFlags,
       shown \in BOOLEAN \X BOOLEAN,
       typed \in {<<>>, w_aab}, t \in {<<>>, <<w_aab>>} :
       /\ m = "Game" => t # <<>>
       /\ call = [fn |-> "start_new_game",
                  app |-> [AppWithHistory(AppWords, sols, h) EXCEPT
                              !.mode = m,
                              !.target_word = t,
                              !.remaining_guesses = GuessesPerGame - Len(h),
                              !.game_won = flags[1],
                              !.game_over = flags[2],
                              !.show_suggestions = shown[1],
                              !.show_analysis = shown[2],
                              !.input = typed]]

\* check_game_state is called by submit_input in an unfinished game, after
\* remaining_guesses went down by one, and by the unit tests on a new App
\* whose remaining_guesses they set
InitCheckGameState ==
    \E r \in 0..GuessesPerGame, f \in Patterns(AppWordLen) :
       call = [fn |-> "check_game_state",
               app |-> [App_new(AppWords, AppSolutionWords, AppWordLen)
                           EXCEPT !.mode = "Game",
                                  !.target_word = <<w_aba>>,
                                  !.remaining_guesses = r],
               feedback |-> f]

\* HistoryViewMode
HistoryViewModes == {"Stats", "List", "Detail", "Solver"}

\* the pages of the game list the user may have left the view on
HistoryPages == {0, 1}

\* Ctrl+R outside History mode: in Solver mode with or without a running
\* session, in Game mode without one
InitEnterHistoryMode ==
    \E m \in {"Solver", "Game"}, h \in HandlerHistories,
       active \in BOOLEAN, view \in HistoryViewModes,
       page \in HistoryPages :
       /\ m = "Game" => ~active
       /\ call = [fn |-> "enter_history_mode",
                  app |-> [AppWithHistory(AppWords, AppSolutionWords, h)
                              EXCEPT !.mode = m,
                                     !.target_word =
                                         IF m = "Game" THEN <<w_aba>>
                                         ELSE <<>>,
                                     !.remaining_guesses =
                                         GuessesPerGame - Len(h),
                                     !.solver_session_active = active,
                                     !.history_view_mode = view,
                                     !.history_page = page]]

\* the words of a session whose dictionary holds every three-letter word
\* over three letters, each of them a solution
RecomputeWords == SeqOfSet(WordsOver(Alphabet, AppWordLen))

\* the guesses stored before the handler runs: aab with the feedback it
\* gets against some word of the dictionary
StoredGuesses ==
    { Guess_new(w_aab, generate_feedback(t, w_aab)) :
         t \in WordsOver(Alphabet, AppWordLen) }

\* the guesses added after recompute: aba with any feedback
AddedGuesses == { Guess_new(w_aba, f) : f \in Patterns(AppWordLen) }

\* recompute as the key handlers call it, on suggestions that fit the
\* history, and as the unit tests call it, after app.suggestions.clear();
\* guess is the guess the caller adds next
InitRecompute ==
    \E k \in 0..(MaxGuesses - 1) :
       \E h \in [1..k -> StoredGuesses], g \in AddedGuesses,
          cleared \in BOOLEAN :
          LET a == AppWithHistory(RecomputeWords, RecomputeWords, h)
          IN  call = [fn |-> "recompute",
                      app |-> IF cleared
                              THEN [a EXCEPT !.suggestions = <<>>]
                              ELSE [a EXCEPT !.analysis_dirty = FALSE],
                      guess |-> g]

\* Ctrl+Z in Solver mode
InitUndoGuess ==
    \E k \in 0..MaxGuesses :
       \E h \in [1..k -> StoredGuesses] :
          call = [fn |-> "undo_guess",
                  app |-> [AppWithHistory(RecomputeWords, RecomputeWords, h)
                              EXCEPT !.analysis_dirty = FALSE]]

InitHandlers ==
    /\ SolverIdle
    /\ FnIdle
    /\ AppIdle
    /\ ret = [done |-> FALSE]
    /\ \/ InitStartNewGame
       \/ InitCheckGameState
       \/ InitEnterHistoryMode
       \/ InitRecompute
       \/ InitUndoGuess

StartNewGame ==
    /\ call.fn = "start_new_game"
    /\ ~ret.done
    /\ \E a \in start_new_game(call.app) :
          ret' = [done |-> TRUE, app |-> a]
    /\ UNCHANGED <<solverVars, fnVars, call, appVars>>

CheckGameState ==
    /\ call.fn = "check_game_state"
    /\ ~ret.done
    /\ ret' = [done |-> TRUE,
               app |-> check_game_state(call.app, call.feedback)]
    /\ UNCHANGED <<solverVars, fnVars, call, appVars>>

EnterHistoryMode ==
    /\ call.fn = "enter_history_mode"
    /\ ~ret.done
    /\ ret' = [done |-> TRUE, app |-> enter_history_mode(call.app)]
    /\ UNCHANGED <<solverVars, fnVars, call, appVars>>

\* exit_history_mode on the App enter_history_mode left; entered keeps
\* that App
ExitHistoryMode ==
    /\ call.fn = "enter_history_mode"
    /\ ret.done
    /\ ret.app.mode = "History"
    /\ ret' = [done |-> TRUE, app |-> exit_history_mode(ret.app),
               entered |-> ret.app]
    /\ UNCHANGED <<solverVars, fnVars, call, appVars>>

Recompute ==
    /\ call.fn = "recompute"
    /\ ~ret.done
    /\ ret' = [done |-> TRUE, app |-> recompute(call.app)]
    /\ UNCHANGED <<solverVars, fnVars, call, appVars>>

\* app.solver.add_guess(guess) and recompute again, as
\* test_recompute_with_guess_narrows_suggestions does; before keeps the
\* App of the first recompute
AddGuessRecompute ==
    /\ call.fn = "recompute"
    /\ ret.done
    /\ ret.app.solver.guesses = call.app.solver.guesses
    /\ ~add_guess_panics(ret.app.solver, call.guess)
    /\ ret' = [done |-> TRUE,
               app |-> recompute([ret.app EXCEPT
                                     !.solver = add_guess(@, call.guess)]),
               before |-> ret.app]
    /\ UNCHANGED <<solverVars, fnVars, call, appVars>>

UndoGuess ==
    /\ call.fn = "undo_guess"
    /\ ~ret.done
    /\ ret' = [done |-> TRUE, app |-> undo_guess(call.app)]
    /\ UNCHANGED <<solverVars, fnVars, call, appVars>>

NextHandlers ==
    \/ StartNewGame
    \/ CheckGameState
    \/ EnterHistoryMode
    \/ ExitHistoryMode
    \/ Recompute
    \/ AddGuessRecompute
    \/ UndoGuess

SpecHandlers == InitHandlers /\ [][NextHandlers]_vars

\* the solution words of the session length, in bytes as str::len counts
SessionSolutions(a) ==
    { a.solution_words[i] :
         i \in { j \in DOMAIN a.solution_words :
                    str_len(a.solution_words[j]) = a.solver.word_len } }

\* C22: start_new_game, from any app state whose solution_words holds a
\* word of the session length, leaves the app in Game mode with a target
\* of the session length taken from solution_words, remaining_guesses = 6,
\* game_won and game_over false, suggestions and analysis hidden, an empty
\* input and an empty guess history; when there is no such word it changes
\* none of these fields and only logs the failure.
StartNewGameResets ==
    (call.fn = "start_new_game" /\ ret.done) =>
       LET a == call.app
           b == ret.app
       IN  IF SessionSolutions(a) # {}
           THEN /\ b.mode = "Game"
                /\ Len(b.target_word) = 1
                /\ b.target_word[1] \in SessionSolutions(a)
                /\ str_len(b.target_word[1]) = a.solver.word_len
                /\ b.remaining_guesses = 6
                /\ ~b.game_won
                /\ ~b.game_over
                /\ ~b.show_suggestions
                /\ ~b.show_analysis
                /\ b.input = <<>>
                /\ b.solver.guesses = <<>>
                /\ b.solver.word_len = a.solver.word_len
           ELSE /\ Len(b.log) = Len(a.log) + 1
                /\ [b EXCEPT !.log = a.log] = a

\* a game started over a finished one with a typed input and a history
StartNewGameWitness ==
    /\ call.fn = "start_new_game"
    /\ ret.done
    /\ call.app.game_won
    /\ call.app.solver.guesses # <<>>
    /\ call.app.input # <<>>
    /\ call.app.show_analysis
    /\ call.app.solution_words = <<w_k, w_aba>>
    /\ ret.app.target_word = <<w_aba>>

\* start_new_game on a list without a word of the session length
StartNewGameFails ==
    /\ call.fn = "start_new_game"
    /\ ret.done
    /\ call.app.solution_words = <<w_k>>
    /\ call.app.mode = "Solver"
    /\ ret.app.mode = "Solver"
    /\ ret.app.log # <<>>

\* every symbol of the feedback is Exact
AllExact(feedback) == \A i \in DOMAIN feedback : feedback[i] = Green

\* C23: check_game_state(feedback) sets game_won and game_over when every
\* symbol of the feedback is Exact; when not, and remaining_guesses is 0,
\* it sets game_over and leaves game_won false; when not, and
\* remaining_guesses is above 0, it leaves both flags as they were.
CheckGameStateOutcome ==
    (call.fn = "check_game_state" /\ ret.done) =>
       LET a == call.app
           b == ret.app
       IN  /\ AllExact(call.feedback) => (b.game_won /\ b.game_over)
           /\ (~AllExact(call.feedback) /\ a.remaining_guesses = 0)
                 => (b.game_over /\ ~b.game_won)
           /\ (~AllExact(call.feedback) /\ a.remaining_guesses > 0)
                 => (b.game_won = a.game_won /\ b.game_over = a.game_over)
           /\ b.game_over <=>
                 (a.game_over \/ AllExact(call.feedback)
                              \/ a.remaining_guesses = 0)

\* the last guess of a game misses the target by one letter
CheckGameStateWitness ==
    /\ call.fn = "check_game_state"
    /\ ret.done
    /\ call.feedback = <<Green, Green, Yellow>>
    /\ call.app.remaining_guesses = 0
    /\ ~call.app.game_over
    /\ ret.app.game_over
    /\ ~ret.app.game_won

\* C24: entering history mode and leaving it keeps the guess history:
\* enter_history_mode sets mode History, view Stats and page 0 and pauses
\* an active solver session; exit_history_mode sets mode Solver and
\* un-pauses the session; neither adds, removes or alters a stored guess.
HistoryKeepsGuesses ==
    (call.fn = "enter_history_mode" /\ ret.done) =>
       LET a == call.app
           entered == IF ret.app.mode = "History" THEN ret.app
                      ELSE ret.entered
       IN  /\ entered.mode = "History"
           /\ entered.history_view_mode = "Stats"
           /\ entered.history_page = 0
           /\ entered.solver_session_active = a.solver_session_active
           /\ a.solver_session_active => entered.solver_session_paused
           /\ entered.solver = a.solver
           /\ ret.app.mode # "History" =>
                 /\ ret.app.mode = "Solver"
                 /\ ~ret.app.solver_session_paused
                 /\ ret.app.solver_session_active = a.solver_session_active
                 /\ ret.app.solver = a.solver

\* a running session with two guesses, left on page 1 of the list, after
\* Ctrl+R twice
HistoryKeepsGuessesWitness ==
    /\ call.fn = "enter_history_mode"
    /\ ret.done
    /\ call.app.solver_session_active
    /\ call.app.history_view_mode = "List"
    /\ call.app.history_page = 1
    /\ Len(call.app.solver.guesses) = 2
    /\ ret.app.mode = "Solver"
    /\ ret.entered.solver_session_paused
    /\ ~ret.app.solver_session_paused
    /\ Len(ret.app.solver.guesses) = 2

(***************************************************************************)
(* struct LogBuffer { inner: Arc<Mutex<Vec<String>>> }                     *)
(*                                                   src/src/ui/types.rs   *)
(* Every clone shares one Mutex and one Vec.  A thread takes the Mutex,    *)
(* works on the Vec and gives the Mutex back when the guard goes out of    *)
(* scope; no step under the Mutex panics, so it is never poisoned.         *)
(***************************************************************************)
MAX_LOG_LINES == 300

\* calls of push and lines one thread makes at most
MaxCalls == 2

\* the threads holding a clone of the buffer
LogThreads == {1, 2}

\* how many lines the buffer was given before the threads start
Prefill ==
    {0, 1, MAX_LOG_LINES - 2, MAX_LOG_LINES - 1, MAX_LOG_LINES,
     MAX_LOG_LINES + 1}

\* the n-th line pushed by thread t
Line(t, n) == <<t, n>>

\* the last n elements of s, all of s when it has fewer
LastLines(s, n) ==
    IF Len(s) <= n THEN s ELSE SubSeq(s, Len(s) - n + 1, Len(s))

\* push dropping the line it has just pushed
remove_overflowNewest(buf) ==
    IF Len(buf) > MAX_LOG_LINES THEN SubSeq(buf, 1, Len(buf) - 1) ELSE buf

\* push: if buf.len() > MAX_LOG_LINES { buf.remove(0); }
remove_overflow(buf) ==
    IF Len(buf) > MAX_LOG_LINES THEN Tail(buf) ELSE buf

\* the buffer after k pushes made one after the other, as
\* test_log_buffer_max_capacity makes them
InitLog ==
    /\ SolverIdle
    /\ FnIdle
    /\ CallIdle
    /\ app = [mode |-> "none"]
    /\ \E k \in Prefill :
          /\ pushed = [i \in 1..k |-> Line(0, i)]
          /\ inner = LastLines([i \in 1..k |-> Line(0, i)], MAX_LOG_LINES)
    /\ holder = 0
    /\ thread = [t \in LogThreads |->
                    [pc |-> "idle", msg |-> <<>>, calls |-> 0]]
    /\ seen = [lines |-> <<>>, at |-> 0]

\* logs.push(msg) is called
CallPush(t) ==
    /\ thread[t].pc = "idle"
    /\ thread[t].calls < MaxCalls
    /\ thread' = [thread EXCEPT ![t] =
                     [pc |-> "push_lock",
                      msg |-> Line(t, thread[t].calls + 1),
                      calls |-> thread[t].calls + 1]]
    /\ UNCHANGED <<inner, holder, pushed, seen>>

\* let mut buf = self.inner.lock().unwrap()
PushLock(t) ==
    /\ thread[t].pc = "push_lock"
    /\ holder = 0
    /\ holder' = t
    /\ thread' = [thread EXCEPT ![t].pc = "push_push"]
    /\ UNCHANGED <<inner, pushed, seen>>

\* buf.push(msg)
PushPush(t) ==
    /\ thread[t].pc = "push_push"
    /\ inner' = Append(inner, thread[t].msg)
    /\ pushed' = Append(pushed, thread[t].msg)
    /\ thread' = [thread EXCEPT ![t].pc = "push_trim"]
    /\ UNCHANGED <<holder, seen>>

\* if buf.len() > MAX_LOG_LINES { buf.remove(0); }
PushTrim(t) ==
    /\ thread[t].pc = "push_trim"
    /\ inner' = remove_overflow(inner)
    /\ thread' = [thread EXCEPT ![t].pc = "push_drop"]
    /\ UNCHANGED <<holder, pushed, seen>>

\* the guard buf goes out of scope
PushDrop(t) ==
    /\ thread[t].pc = "push_drop"
    /\ holder' = 0
    /\ thread' = [thread EXCEPT ![t].pc = "idle", ![t].msg = <<>>]
    /\ UNCHANGED <<inner, pushed, seen>>

\* logs.lines() is called
CallLines(t) ==
    /\ thread[t].pc = "idle"
    /\ thread[t].calls < MaxCalls
    /\ thread' = [thread EXCEPT ![t].pc = "lines_lock",
                                ![t].calls = @ + 1]
    /\ UNCHANGED <<inner, holder, pushed, seen>>

\* self.inner.lock().unwrap()
LinesLock(t) ==
    /\ thread[t].pc = "lines_lock"
    /\ holder = 0
    /\ holder' = t
    /\ thread' = [thread EXCEPT ![t].pc = "lines_clone"]
    /\ UNCHANGED <<inner, pushed, seen>>

\* .clone(), and the temporary guard is dropped
LinesClone(t) ==
    /\ thread[t].pc = "lines_clone"
    /\ seen' = [lines |-> inner, at |-> Len(pushed)]
    /\ holder' = 0
    /\ thread' = [thread EXCEPT ![t].pc = "idle"]
    /\ UNCHANGED <<inner, pushed>>

NextLog ==
    /\ \E t \in LogThreads :
          \/ CallPush(t)
          \/ PushLock(t)
          \/ PushPush(t)
          \/ PushTrim(t)
          \/ PushDrop(t)
          \/ CallLines(t)
          \/ LinesLock(t)
          \/ LinesClone(t)
    /\ UNCHANGED <<solverVars, fnVars, callVars, app>>

SpecLog == InitLog /\ [][NextLog]_vars

\* C25: LogBuffer never holds more than MAX_LOG_LINES (300) lines: after
\* any pushes, those of several threads sharing clones interleaved as they
\* may be, lines() returns at most 300 entries, and they are the lines
\* pushed last, in the order they were pushed (the oldest is dropped
\* first); the same holds of the Vec whenever no thread holds the Mutex.
LogBufferKeepsNewest ==
    /\ Len(seen.lines) <= 300
    /\ seen.lines = LastLines(SubSeq(pushed, 1, seen.at), MAX_LOG_LINES)
    /\ holder = 0 =>
          /\ Len(inner) <= 300
          /\ inner = LastLines(pushed, MAX_LOG_LINES)

\* lines() returns a full buffer that lost its oldest lines to the pushes
\* of two threads
LogBufferWitness ==
    /\ seen.at > MAX_LOG_LINES
    /\ Len(seen.lines) = MAX_LOG_LINES
    /\ seen.lines[1] # Line(0, 1)
    /\ \E i, j \in DOMAIN seen.lines :
          /\ i < j
          /\ seen.lines[i][1] = 2
          /\ seen.lines[j][1] = 1

\* C26 as stated: after a guess is added to the solver and recompute has
\* run, the suggestions are never more than recompute gave before the
\* guess was added.
SuggestionsNeverGrow ==
    (call.fn = "recompute" /\ ret.done
        /\ Len(ret.app.solver.guesses) > Len(call.app.solver.guesses)) =>
       Len(ret.app.suggestions) <= Len(ret.before.suggestions)

\* C26: after a guess is added to a guess history that was not empty and
\* recompute has run, the suggestions are never more than recompute gave
\* before the guess was added; on an empty history recompute gives no
\* suggestion, whatever the candidates are.
SuggestionsNarrow ==
    (call.fn = "recompute" /\ ret.done
        /\ Len(ret.app.solver.guesses) > Len(call.app.solver.guesses)) =>
       /\ call.app.solver.guesses # <<>> =>
             Len(ret.app.suggestions) <= Len(ret.before.suggestions)
       /\ call.app.solver.guesses = <<>> => ret.before.suggestions = <<>>

\* a second guess takes candidates away from the suggestions of the first
SuggestionsNarrowWitness ==
    /\ call.fn = "recompute"
    /\ ret.done
    /\ Len(call.app.solver.guesses) = 1
    /\ Len(ret.app.solver.guesses) = 2
    /\ Len(ret.before.suggestions) > Len(ret.app.suggestions)
    /\ Len(ret.app.suggestions) > 0

\* the solution words of a that every stored guess allows, in the order of
\* solution_words
RemainingCandidates(a) ==
    SelectSeq(a.solution_words, LAMBDA w :
        /\ Len(w) = a.solver.word_len
        /\ \A k \in DOMAIN a.solver.guesses :
              matches(w, a.solver.guesses[k].word,
                      a.solver.guesses[k].feedback))

\* what recompute leaves in b
Recomputed(b) ==
    /\ b.analysis_dirty
    /\ IF b.solver.guesses = <<>>
       THEN b.suggestions = <<>>
       ELSE /\ b.suggestions =
                  score_and_sort(filter(b.solver, b.solution_words),
                                 b.allowed_lookup)
            /\ Len(b.suggestions) = Len(RemainingCandidates(b))
            /\ { b.suggestions[i].word : i \in DOMAIN b.suggestions }
                  = { RemainingCandidates(b)[i] :
                         i \in DOMAIN RemainingCandidates(b) }

\* C27: after every call of recompute the suggestions are empty when the
\* guess history is empty and otherwise score_and_sort applied to
\* filter(solution_words) for the history, one entry per remaining
\* candidate, and analysis_dirty is true; undo_guess on a history that is
\* not empty pops one guess, the newest, and recomputes; on an empty
\* history it changes nothing.
RecomputeAndUndo ==
    /\ (call.fn = "recompute" /\ ret.done) => Recomputed(ret.app)
    /\ (call.fn = "undo_guess" /\ ret.done) =>
          LET a == call.app
              b == ret.app
              n == Len(a.solver.guesses)
          IN  IF n = 0 THEN b = a
              ELSE /\ b.solver.guesses = SubSeq(a.solver.guesses, 1, n - 1)
                   /\ b.solver.word_len = a.solver.word_len
                   /\ Recomputed(b)

\* undo_guess takes the only guess back and the suggestions with it
RecomputeAndUndoWitness ==
    /\ call.fn = "undo_guess"
    /\ ret.done
    /\ Len(call.app.solver.guesses) = 1
    /\ Len(call.app.suggestions) > 1
    /\ ~call.app.analysis_dirty
    /\ ret.app.solver.guesses = <<>>
    /\ ret.app.suggestions = <<>>
    /\ ret.app.analysis_dirty

\* C28 as stated: whenever the app is in Solver mode a solver session is
\* active, in every state the key events reach from App::new.
SolverModeHasSession ==
    app.mode = "Solver" => app.solver_session_active

\* the target of the game being played
Target(a) == a.target_word[1]

\* C29: in Game mode the target is never eliminated: in every state the
\* key events reach after start_new_game each stored guess carries the
\* feedback generate_feedback(target, guess), the target matches every
\* stored guess and so is in filter(solution_words); and game_won is true
\* exactly when the guess submitted last is the target.
TargetNeverEliminated ==
    app.mode = "Game" =>
       LET gs == app.solver.guesses
           remaining == filter(app.solver, app.solution_words)
       IN  /\ app.target_word # <<>>
           /\ \A k \in DOMAIN gs :
                 /\ gs[k].feedback = generate_feedback(Target(app), gs[k].word)
                 /\ matches(Target(app), gs[k].word, gs[k].feedback)
           /\ \E i \in DOMAIN remaining : remaining[i] = Target(app)
           /\ app.game_won <=>
                 (gs # <<>> /\ gs[Len(gs)].word = Target(app))

\* a game won with the second guess, after a first that was not the target
TargetNeverEliminatedWitness ==
    /\ app.mode = "Game"
    /\ Len(app.solver.guesses) = 2
    /\ app.solver.guesses[1].word # Target(app)
    /\ app.solver.guesses[2].word = Target(app)
    /\ app.game_won
    /\ app.game_over

\* C30, in the states: in Game mode remaining_guesses plus the stored
\* guesses is 6, so a game stores 6 guesses at most, and remaining_guesses
\* is 0 in a finished game only, so it is never decremented below 0.
GuessBudget ==
    app.mode = "Game" =>
       /\ app.remaining_guesses + Len(app.solver.guesses) = 6
       /\ Len(app.solver.guesses) <= 6
       /\ app.remaining_guesses >= 0
       /\ app.remaining_guesses = 0 => app.game_over

\* C30, in the steps: Enter in a finished game stores no guess and starts
\* a new game; Ctrl+Z in Game mode leaves the history and
\* remaining_guesses as they are.
GuessBudgetStep ==
    /\ (FinishedGame(app) /\ KeyEnter) =>
          /\ app'.added = <<>>
          /\ app'.mode = "Game"
          /\ app'.solver.guesses = <<>>
          /\ app'.remaining_guesses = 6
          /\ ~app'.game_over
    /\ (app.mode = "Game" /\ KeyCtrlZ) =>
          /\ app'.solver = app.solver
          /\ app'.remaining_guesses = app.remaining_guesses

\* C30: in every state the key events reach in Game mode remaining_guesses
\* plus the number of stored guesses is 6, so at most 6 guesses are stored
\* in one game and remaining_guesses never goes below 0; once game_over is
\* set no further guess is accepted (Enter starts a new game), and Ctrl+Z
\* in Game mode leaves the history and remaining_guesses unchanged.
GameGuessBudget == []GuessBudget /\ [][GuessBudgetStep]_vars

\* a game lost with its sixth guess
GameGuessBudgetWitness ==
    /\ app.mode = "Game"
    /\ Len(app.solver.guesses) = 6
    /\ app.remaining_guesses = 0
    /\ app.game_over
    /\ ~app.game_won

====
